------------------------- MODULE CanvasEditorProofs -------------------------
(***************************************************************************)
(* Proofs about CanvasEditor, for any names, paths, working copies and     *)
(* bounds.                                                                 *)
(***************************************************************************)
EXTENDS CanvasEditor, FiniteSetTheorems, TLAPS

(***************************************************************************)
(* The inductive invariant.                                                *)
(***************************************************************************)
NameSet == Bases \X (Plain..99)
ComponentSet == [name : NameSet, port : Nat, senders : Seq(Conn), receivers : Seq(Conn)]
ModuleSet == [name : NameSet, port : Nat, nSend : Nat, nReceive : Nat]
AnyLink == [mSend : Nat, ioSend : Nat, mReceive : Nat, ioReceive : Nat]
Value == Conn \ {Blank}
RequestSet ==
    [kind : {"load", "write", "submit", "copy"}, stage : {"sent", "got", "post"},
     data : Document, mSend : Nat, mRec : Nat, from : {"none", "sender", "receiver"},
     alone : BOOLEAN]

PageTyped ==
    /\ moduleArray \in Seq(ModuleSet)
    /\ overallConnections \in Seq(AnyLink)
    /\ TEMPORARYINFO \in AnyLink \cup {NoLink} /\ (form.open => TEMPORARYINFO \in AnyLink)
    /\ form \in [open : BOOLEAN, value : Value \cup {NoConn}]
    /\ PORTMODULE \in Nat /\ PORTCONNECTION \in Nat
    /\ overlapped \in BOOLEAN /\ unsaved \in BOOLEAN
    /\ file \in Document

RequestsTyped == requests \in Seq(RequestSet)

(* A chain that reads TEMPORARYINFO was started after a link was drawn. *)
LinkKnown ==
    \A i \in DOMAIN requests :
        requests[i].kind \in {"submit", "copy"} /\ requests[i].stage # "post"
           => TEMPORARYINFO \in AnyLink

Typed == PageTyped /\ RequestsTyped /\ LinkKnown

(* What the histories tell of the chains in flight. *)
HistoryInv ==
    /\ \A i \in DOMAIN requests : IF requests[i].alone THEN Len(requests) = 1
                                  ELSE overlapped /\ unsaved
    /\ unsaved => overlapped
    /\ form.open /\ ~overlapped => requests = <<>>

(* The document as it is once the chain in flight has ended. *)
Latest == IF requests # <<>> /\ requests[1].stage = "post" THEN requests[1].data ELSE file
Loading == requests # <<>> /\ requests[1].kind = "load"
Saving == requests # <<>> /\ requests[1].kind = "write" /\ requests[1].stage # "post"

(* Every module is in the document with its connectors. *)
Covers(mods, doc) ==
    \A m \in DOMAIN mods :
        \E i \in DOMAIN doc :
            /\ doc[i].name = mods[m].name
            /\ Len(doc[i].senders) >= mods[m].nSend
            /\ Len(doc[i].receivers) >= mods[m].nReceive

(* A chain that runs alone works on the document that is on the server. *)
NoLines == [sends |-> EmptyBag, receives |-> EmptyBag, overall |-> <<>>]
ChainInv(r) ==
    /\ r.kind = "load" => /\ r.stage # "post" /\ moduleArray = <<>>
                          /\ Lines = NoLines /\ ~form.open
    /\ r.stage = "got" => r.data = file
    /\ r.kind = "write" /\ r.stage = "post" => Covers(moduleArray, r.data)
AloneInv == \A i \in DOMAIN requests : requests[i].alone => ChainInv(requests[i])

SavedInv == ~unsaved /\ ~Saving /\ DistinctNames(Latest) => Covers(moduleArray, Latest)

(* Ports of modules. *)
PortsDiffer(s) == \A i, j \in DOMAIN s : s[i].port = s[j].port => i = j
OnCanvas(mods, doc) ==
    \A i \in DOMAIN doc : \E m \in DOMAIN mods :
        doc[i].name = mods[m].name /\ doc[i].port = mods[m].port
Below(mods, n) == \A m \in DOMAIN mods : mods[m].port < n
PortsInv ==
    ~overlapped =>
        /\ PortsDiffer(Latest)
        /\ ~Loading => /\ PortsDiffer(moduleArray) /\ OnCanvas(moduleArray, Latest)
                       /\ Below(moduleArray, PORTMODULE)

(* The three places of a link. *)
Agree(lines) ==
    /\ lines.sends = lines.receives
    /\ DOMAIN lines.sends = ToSet(lines.overall)
    /\ \A l \in DOMAIN lines.sends : lines.sends[l] \in Nat \ {0}
    /\ \A i, j \in DOMAIN lines.overall : lines.overall[i] = lines.overall[j] => i = j

(* A link that is drawn and not stored yet. *)
Submitting == requests # <<>> /\ requests[1].kind = "submit" /\ requests[1].stage # "post"
Linking == form.open \/ Submitting
Drawn == {l \in ToSet(overallConnections) : Linking => l # TEMPORARYINFO}
SameSender(a, b) == a.mSend = b.mSend /\ a.ioSend = b.ioSend
SameReceiver(a, b) == a.mReceive = b.mReceive /\ a.ioReceive = b.ioReceive
Free(l, L) == \A o \in L : ~SameSender(o, l) /\ ~SameReceiver(o, l)
NewLink(l) ==
    /\ l \in Drawable /\ l \in DOMAIN sendLists /\ sendLists[l] = 1
    /\ Free(l, Drawn)
    /\ form.value.transport = "tcp" => form.value.key < PORTCONNECTION
    /\ Submitting => requests[1].mSend = l.mSend /\ requests[1].mRec = l.mReceive
LinesInv ==
    ~overlapped =>
        /\ Agree(Lines)
        /\ Linking => NewLink(TEMPORARYINFO)
        /\ requests # <<>> /\ requests[1].kind = "copy" => ~Apart(ToSet(overallConnections))

(* Links and values: each link drawn has one value at both of its ends, a  *)
(* port joins no others, and a path no others but for its link.            *)
At(mods, doc, side, m, chid, c) ==
    /\ m \in DOMAIN mods
    /\ \E i \in DOMAIN doc : /\ doc[i].name = mods[m].name
                             /\ chid + 1 \in DOMAIN doc[i][side]
                             /\ doc[i][side][chid + 1] = c
Joins(mods, doc, l, c) ==
    /\ At(mods, doc, "senders", l.mSend, l.ioSend, c)
    /\ At(mods, doc, "receivers", l.mReceive, l.ioReceive, c)
Shown(mods, doc, L) ==
    /\ \A l \in L : \E c \in Value : Joins(mods, doc, l, c)
    /\ \A l \in AnyLink, c \in Value : Joins(mods, doc, l, c) =>
          l \in L \/ (c.transport = "ipc" /\ \E o \in L : Joins(mods, doc, o, c))
PortsUsed(doc) ==
    \A p \in Ports(doc) : /\ p < PORTCONNECTION
                          /\ Linking /\ form.value.transport = "tcp" => p < form.value.key
ShowInv ==
    ~overlapped /\ ~Loading /\ DistinctNames(moduleArray) /\ Apart(Drawn) =>
        DistinctNames(Latest) /\ Shown(moduleArray, Latest, Drawn) /\ PortsUsed(Latest)

IInv == Typed /\ HistoryInv /\ AloneInv /\ SavedInv /\ PortsInv /\ LinesInv /\ ShowInv

-----------------------------------------------------------------------------
(***************************************************************************)
(* Recursive definitions.  Facts about them need induction, here by the    *)
(* least number that contradicts them.                                     *)
(***************************************************************************)

(* Induction over the natural numbers, for a set of them. *)
LEMMA NatSet ==
    ASSUME NEW T \in SUBSET Nat, 0 \in T, \A n \in T : n + 1 \in T
    PROVE  T = Nat
<1> SUFFICES ASSUME Nat \ T # {} PROVE FALSE
  OBVIOUS
<1>0. PICK R : R = OpToRel(<, Nat) OBVIOUS
<1>a. IsWellFoundedOn(R, Nat) BY <1>0, NatLessThanWellFounded, Zenon
<1>1. \E x \in Nat \ T : \A y \in Nat \ T : ~ (<<y, x>> \in R)
  <2> HIDE <1>0
  <2>1. Nat \ T \subseteq Nat OBVIOUS
  <2> QED BY <1>a, <2>1, WFMin, Zenon
<1>2. PICK x \in Nat \ T : \A y \in Nat \ T : ~ (y < x)
  BY <1>0, <1>1 DEF OpToRel
<1>3. x # 0 /\ x - 1 \in Nat /\ x - 1 < x /\ (x - 1) + 1 = x OBVIOUS
<1>4. x - 1 \in T BY <1>2, <1>3
<1> QED BY <1>2, <1>3, <1>4

(* f has what Flatten has after each of the first m sequences. *)
FlatTo(f, ss, m) == f = [n \in 0..m |-> IF n = 0 THEN <<>> ELSE f[n - 1] \o ss[n]]

LEMMA FlatExists ==
    ASSUME NEW ss, NEW m \in Nat
    PROVE  \E f : FlatTo(f, ss, m)
<1> DEFINE T == {k \in Nat : \E f : FlatTo(f, ss, k)}
<1>1. 0 \in T
  <2>1. PICK f : f = [n \in 0..0 |-> <<>>] OBVIOUS
  <2>2. FlatTo(f, ss, 0) BY <2>1 DEF FlatTo
  <2> QED BY <2>2
<1>2. ASSUME NEW k \in T PROVE k + 1 \in T
  <2>1. PICK f : FlatTo(f, ss, k) OBVIOUS
  <2>2. PICK last : last = f[k] \o ss[k + 1] OBVIOUS
  <2>3. PICK g : g = [n \in 0..(k + 1) |-> IF n = k + 1 THEN last ELSE f[n]] OBVIOUS
  <2>4. ASSUME NEW n \in 0..(k + 1)
        PROVE  g[n] = IF n = 0 THEN <<>> ELSE g[n - 1] \o ss[n]
    <3>1. CASE n = k + 1
      <4>1. g[n] = last /\ n - 1 = k /\ k \in 0..(k + 1) /\ k # k + 1 /\ n # 0 BY <2>3, <3>1
      <4>2. g[n - 1] = f[k] BY <2>3, <4>1
      <4> QED BY <2>2, <3>1, <4>1, <4>2
    <3>2. CASE n # k + 1
      <4>1. n \in 0..k /\ g[n] = f[n] BY <2>3, <3>2
      <4>2. f[n] = IF n = 0 THEN <<>> ELSE f[n - 1] \o ss[n]
        BY <2>1, <4>1 DEF FlatTo
      <4>3. n # 0 => g[n - 1] = f[n - 1] BY <2>3, <4>1
      <4> QED BY <4>1, <4>2, <4>3
    <3> QED BY <3>1, <3>2
  <2>5. g = [n \in 0..(k + 1) |-> IF n = 0 THEN <<>> ELSE g[n - 1] \o ss[n]]
    BY <2>3, <2>4
  <2>6. FlatTo(g, ss, k + 1) BY <2>5 DEF FlatTo
  <2>7. k + 1 \in Nat OBVIOUS
  <2> QED BY <2>6, <2>7
<1>3. T \in SUBSET Nat OBVIOUS
<1>4. T = Nat
  <2> HIDE DEF T
  <2> QED BY <1>1, <1>2, <1>3, NatSet
<1> QED BY <1>4

(* Flatten is the recursion that it is defined by. *)
LEMMA FlatSteps ==
    ASSUME NEW ss, Len(ss) \in Nat
    PROVE  \E f : /\ f[0] = <<>> /\ Flatten(ss) = f[Len(ss)]
                  /\ \A n \in 1..Len(ss) : f[n] = f[n - 1] \o ss[n]
<1>1. PICK f : f = CHOOSE g : FlatTo(g, ss, Len(ss)) OBVIOUS
<1>2. Flatten(ss) = f[Len(ss)] BY <1>1 DEF Flatten, FlatTo
<1>3. FlatTo(f, ss, Len(ss)) BY <1>1, FlatExists
<1>4. 0 \in 0..Len(ss) /\ \A n \in 1..Len(ss) : n \in 0..Len(ss) /\ n # 0 OBVIOUS
<1> QED BY <1>2, <1>3, <1>4 DEF FlatTo

In(x, s) == \E p \in 1..Len(s) : s[p] = x

LEMMA InCat ==
    ASSUME NEW S, NEW a \in Seq(S), NEW b \in Seq(S)
    PROVE  \A x : In(x, a \o b) <=> In(x, a) \/ In(x, b)
<1>1. ASSUME NEW x, In(x, a) PROVE In(x, a \o b)
  BY <1>1 DEF In
<1>2. ASSUME NEW x, In(x, b) PROVE In(x, a \o b)
  <2>1. PICK p \in 1..Len(b) : b[p] = x BY <1>2 DEF In
  <2>2. Len(a) + p \in 1..Len(a \o b) /\ (a \o b)[Len(a) + p] = x BY <2>1
  <2> QED BY <2>2 DEF In
<1>3. ASSUME NEW x, In(x, a \o b) PROVE In(x, a) \/ In(x, b)
  <2>1. PICK p \in 1..Len(a \o b) : (a \o b)[p] = x BY <1>3 DEF In
  <2>2. CASE p =< Len(a) BY <2>1, <2>2 DEF In
  <2>3. CASE p > Len(a)
    <3>1. p - Len(a) \in 1..Len(b) /\ b[p - Len(a)] = x BY <2>1, <2>3
    <3> QED BY <3>1 DEF In
  <2> QED BY <2>1, <2>2, <2>3
<1> QED BY <1>1, <1>2, <1>3

(* It yields a sequence of the elements of its parts. *)
LEMMA FlatElements ==
    ASSUME NEW S, NEW ss \in Seq(Seq(S))
    PROVE  /\ Flatten(ss) \in Seq(S)
           /\ \A x : In(x, Flatten(ss)) <=> \E i \in 1..Len(ss) : In(x, ss[i])
<1>0. Len(ss) \in Nat /\ \A i \in 1..Len(ss) : ss[i] \in Seq(S) OBVIOUS
<1>1. PICK f : /\ f[0] = <<>> /\ Flatten(ss) = f[Len(ss)]
               /\ \A n \in 1..Len(ss) : f[n] = f[n - 1] \o ss[n]
  BY <1>0, FlatSteps
<1> DEFINE Ok(k) == f[k] \in Seq(S) /\ \A x : In(x, f[k]) <=> \E i \in 1..k : In(x, ss[i])
           T == {k \in Nat : k =< Len(ss) => Ok(k)}
<1>2. 0 \in T
  <2>1. f[0] \in Seq(S) /\ Len(f[0]) = 0 BY <1>1
  <2>2. \A x : ~In(x, f[0]) BY <2>1 DEF In
  <2> QED BY <2>1, <2>2
<1>3. ASSUME NEW k \in T PROVE k + 1 \in T
  <2> SUFFICES ASSUME k + 1 =< Len(ss) PROVE Ok(k + 1)
    OBVIOUS
  <2>1. Ok(k) /\ k + 1 \in 1..Len(ss) /\ (k + 1) - 1 = k BY <1>0
  <2>2. PICK a \in Seq(S) : a = f[k] BY <2>1
  <2>3. PICK b \in Seq(S) : b = ss[k + 1] BY <1>0, <2>1
  <2>4. f[k + 1] = a \o b BY <1>1, <2>1, <2>2, <2>3
  <2>5. \A x : In(x, a \o b) <=> In(x, a) \/ In(x, b) BY InCat
  <2>6. \A i : i \in 1..(k + 1) <=> i \in 1..k \/ i = k + 1 OBVIOUS
  <2>7. f[k + 1] \in Seq(S) BY <2>4
  <2> QED BY <2>1, <2>2, <2>3, <2>4, <2>5, <2>6, <2>7
<1>4. T = Nat
  <2> HIDE DEF T
  <2>1. T \in SUBSET Nat BY DEF T
  <2> QED BY <1>2, <1>3, <2>1, NatSet
<1>5. Len(ss) \in T BY <1>0, <1>4
<1>6. Ok(Len(ss)) BY <1>5
<1> QED BY <1>1, <1>6

(* The elements of s are those of the parts of ss, which have at most one. *)
Ones(ss, s, k) ==
    \E src \in [1..Len(s) -> 1..k] :
        /\ \A p, q \in 1..Len(s) : src[p] = src[q] => p = q
        /\ \A p \in 1..Len(s) : Len(ss[src[p]]) = 1 /\ ss[src[p]][1] = s[p]

LEMMA Cat ==
    ASSUME NEW S, NEW a \in Seq(S), NEW b \in Seq(S)
    PROVE  /\ a \o b \in Seq(S) /\ Len(a) \in Nat /\ Len(b) \in Nat
           /\ Len(a \o b) = Len(a) + Len(b)
           /\ \A p \in 1..Len(a) : (a \o b)[p] = a[p]
           /\ \A p \in 1..Len(b) : (a \o b)[Len(a) + p] = b[p]
<1>1. a \o b \in Seq(S) /\ Len(a \o b) = Len(a) + Len(b) /\ Len(a) \in Nat /\ Len(b) \in Nat
  OBVIOUS
<1>2. \A p \in 1..Len(a) : (a \o b)[p] = a[p] OBVIOUS
<1>3. \A p \in 1..Len(b) : (a \o b)[Len(a) + p] = b[p] OBVIOUS
<1> QED BY <1>1, <1>2, <1>3

LEMMA OneMore ==
    ASSUME NEW S, NEW ss, NEW k \in Nat, NEW a \in Seq(S), NEW b \in Seq(S),
           Ones(ss, a, k), b = ss[k + 1], Len(b) =< 1
    PROVE  Ones(ss, a \o b, k + 1)
<1>1. PICK src \in [1..Len(a) -> 1..k] :
         /\ \A p, q \in 1..Len(a) : src[p] = src[q] => p = q
         /\ \A p \in 1..Len(a) : Len(ss[src[p]]) = 1 /\ ss[src[p]][1] = a[p]
  BY DEF Ones
<1>2. CASE Len(b) = 0
  <2>1. a \o b = a BY <1>2
  <2>2. src \in [1..Len(a) -> 1..(k + 1)] OBVIOUS
  <2>3. Ones(ss, a, k + 1) BY <1>1, <2>2 DEF Ones
  <2> QED BY <2>1, <2>3
<1>3. CASE Len(b) = 1
  <2>1. PICK c : c = a \o b OBVIOUS
  <2>a. c \in Seq(S) /\ Len(c) = Len(a) + Len(b) /\ Len(a) \in Nat BY <2>1, Cat, Zenon
  <2>2. c \in Seq(S) /\ Len(c) = Len(a) + 1 /\ Len(a) \in Nat BY <1>3, <2>a
  <2>3. c[Len(a) + 1] = b[1]
    <3>1. 1 \in 1..Len(b) BY <1>3
    <3> QED BY <2>1, <3>1, Cat
  <2>4. \A p \in 1..Len(a) : c[p] = a[p] BY <2>1, Cat
  <2>5. PICK new : new = [p \in 1..Len(c) |-> IF p = Len(a) + 1 THEN k + 1 ELSE src[p]]
    OBVIOUS
  <2>6. \A p \in 1..Len(c) : p = Len(a) + 1 \/ p \in 1..Len(a) BY <2>2
  <2>7. \A p \in 1..Len(a) : src[p] \in 1..k OBVIOUS
  <2>8. new \in [1..Len(c) -> 1..(k + 1)] BY <2>2, <2>5, <2>6, <2>7
  <2>9. \A p \in 1..Len(a) : new[p] = src[p] /\ new[p] # k + 1 BY <2>2, <2>5, <2>7
  <2>10. new[Len(a) + 1] = k + 1 BY <2>2, <2>5
  <2>11. \A p, q \in 1..Len(c) : new[p] = new[q] => p = q BY <1>1, <2>6, <2>9, <2>10
  <2>12. \A p \in 1..Len(c) : Len(ss[new[p]]) = 1 /\ ss[new[p]][1] = c[p]
    <3>1. \A p \in 1..Len(a) : Len(ss[new[p]]) = 1 /\ ss[new[p]][1] = c[p]
      BY <1>1, <2>4, <2>9
    <3>2. Len(ss[new[Len(a) + 1]]) = 1 /\ ss[new[Len(a) + 1]][1] = c[Len(a) + 1]
      BY <1>3, <2>3, <2>10
    <3> QED BY <2>6, <3>1, <3>2
  <2>13. Ones(ss, c, k + 1) BY <2>8, <2>11, <2>12 DEF Ones
  <2> QED BY <2>1, <2>13
<1>4. Len(b) = 0 \/ Len(b) = 1
  <2>1. Len(b) \in Nat BY Cat, Zenon
  <2>2. \A n \in Nat : n =< 1 => n = 0 \/ n = 1 OBVIOUS
  <2> QED BY <2>1, <2>2, Zenon
<1> QED BY <1>2, <1>3, <1>4, Zenon

(* Parts of one element keep apart. *)
LEMMA FlattenOnes ==
    ASSUME NEW S, NEW ss \in Seq(Seq(S)), \A i \in 1..Len(ss) : Len(ss[i]) =< 1
    PROVE  Ones(ss, Flatten(ss), Len(ss))
<1>0. Len(ss) \in Nat /\ \A i \in 1..Len(ss) : ss[i] \in Seq(S) OBVIOUS
<1>1. PICK f : /\ f[0] = <<>> /\ Flatten(ss) = f[Len(ss)]
               /\ \A n \in 1..Len(ss) : f[n] = f[n - 1] \o ss[n]
  BY <1>0, FlatSteps
<1> DEFINE Ok(k) == f[k] \in Seq(S) /\ Ones(ss, f[k], k)
           T == {k \in Nat : k =< Len(ss) => Ok(k)}
<1>2. 0 \in T
  <2>1. f[0] \in Seq(S) /\ Len(f[0]) = 0 BY <1>1
  <2>2. PICK src : src = [p \in 1..Len(f[0]) |-> 1] OBVIOUS
  <2>3. src \in [1..Len(f[0]) -> 1..0] BY <2>1, <2>2
  <2>4. Ones(ss, f[0], 0) BY <2>1, <2>3 DEF Ones
  <2> QED BY <2>1, <2>4
<1>3. ASSUME NEW k \in T PROVE k + 1 \in T
  <2> SUFFICES ASSUME k + 1 =< Len(ss) PROVE Ok(k + 1)
    OBVIOUS
  <2>1. Ok(k) /\ k + 1 \in 1..Len(ss) /\ (k + 1) - 1 = k BY <1>0
  <2>2. PICK a \in Seq(S) : a = f[k] BY <2>1
  <2>3. PICK b \in Seq(S) : b = ss[k + 1] BY <1>0, <2>1
  <2>4. f[k + 1] = a \o b BY <1>1, <2>1, <2>2, <2>3
  <2>5. Ones(ss, a, k) /\ Len(b) =< 1 BY <2>1, <2>2, <2>3
  <2>6. Ones(ss, a \o b, k + 1)
    <3> HIDE DEF T, Ok
    <3>1. k \in Nat BY DEF T
    <3> QED BY <2>3, <2>5, <3>1, OneMore
  <2>7. a \o b \in Seq(S) OBVIOUS
  <2> QED BY <2>4, <2>6, <2>7
<1>4. T = Nat
  <2> HIDE DEF T
  <2>1. T \in SUBSET Nat BY DEF T
  <2> QED BY <1>2, <1>3, <2>1, NatSet
<1>5. Len(ss) \in T BY <1>0, <1>4
<1>6. Ok(Len(ss)) BY <1>5
<1> QED BY <1>1, <1>6

-----------------------------------------------------------------------------
(***************************************************************************)
(* The lines of the canvas.                                                *)
(***************************************************************************)

(* Adding a link to lines. *)
LEMMA AddLink ==
    ASSUME NEW lines, lines.overall \in Seq(AnyLink), NEW l \in AnyLink
    PROVE  /\ WithLink(lines, l).overall \in Seq(AnyLink)
           /\ ToSet(WithLink(lines, l).overall) = ToSet(lines.overall) \cup {l}
           /\ Agree(lines) => Agree(WithLink(lines, l))
           /\ Agree(lines) /\ l \notin ToSet(lines.overall) => WithLink(lines, l).sends[l] = 1
<1>1. PICK s \in Seq(AnyLink) : s = lines.overall OBVIOUS
<1>2. PICK t : t = WithLink(lines, l).overall OBVIOUS
<1>3. t = IF Contains(s, l) THEN s ELSE Append(s, l) BY <1>1, <1>2 DEF WithLink
<1>4. Contains(s, l) <=> l \in ToSet(s) BY DEF Contains, ToSet
<1>5. /\ t \in Seq(AnyLink) /\ ToSet(t) = ToSet(s) \cup {l}
      /\ (\A i, j \in DOMAIN s : s[i] = s[j] => i = j) =>
            \A i, j \in DOMAIN t : t[i] = t[j] => i = j
  <2>1. CASE Contains(s, l) BY <1>3, <1>4, <2>1
  <2>2. CASE ~Contains(s, l)
    <3>1. t = Append(s, l) BY <1>3, <2>2
    <3>2. /\ t \in Seq(AnyLink) /\ Len(t) = Len(s) + 1 /\ t[Len(s) + 1] = l
          /\ \A i \in 1..Len(s) : t[i] = s[i] /\ s[i] # l
      BY <2>2, <3>1 DEF Contains
    <3>3. DOMAIN t = 1..(Len(s) + 1) /\ DOMAIN s = 1..Len(s) BY <3>2
    <3>4. \A i \in DOMAIN t : i \in DOMAIN s \/ i = Len(s) + 1 BY <3>3
    <3>5. ToSet(t) = ToSet(s) \cup {l}
      <4>1. ToSet(t) \subseteq ToSet(s) \cup {l} BY <3>2, <3>3, <3>4 DEF ToSet
      <4>2. ToSet(s) \subseteq ToSet(t) BY <3>2, <3>3 DEF ToSet
      <4>3. l \in ToSet(t) BY <3>2, <3>3 DEF ToSet
      <4> QED BY <4>1, <4>2, <4>3
    <3> QED BY <3>2, <3>3, <3>4, <3>5
  <2> QED BY <2>1, <2>2
<1>6. ASSUME Agree(lines) PROVE Agree(WithLink(lines, l))
  <2>1. PICK B : B = lines.sends OBVIOUS
  <2>2. /\ lines.receives = B /\ DOMAIN B = ToSet(s)
        /\ \A o \in DOMAIN B : B[o] \in Nat \ {0}
        /\ \A i, j \in DOMAIN s : s[i] = s[j] => i = j
    BY <1>1, <1>6, <2>1 DEF Agree
  <2>3. PICK C : C = B (+) SetToBag({l}) OBVIOUS
  <2>4. WithLink(lines, l).sends = C /\ WithLink(lines, l).receives = C
    BY <2>1, <2>2, <2>3 DEF WithLink
  <2>5. DOMAIN C = DOMAIN B \cup {l} BY <2>3 DEF (+), SetToBag
  <2>6. \A o \in DOMAIN C : C[o] \in Nat \ {0}
    BY <2>2, <2>3 DEF (+), SetToBag
  <2> QED BY <1>2, <1>5, <2>2, <2>4, <2>5, <2>6 DEF Agree
<1>7. ASSUME Agree(lines), l \notin ToSet(lines.overall) PROVE WithLink(lines, l).sends[l] = 1
  <2>1. PICK B : B = lines.sends OBVIOUS
  <2>2. l \notin DOMAIN B BY <1>7, <2>1 DEF Agree
  <2>3. WithLink(lines, l).sends = B (+) SetToBag({l}) BY <2>1 DEF WithLink
  <2>4. (B (+) SetToBag({l}))[l] = 0 + 1 BY <2>2 DEF (+), SetToBag
  <2> QED BY <2>3, <2>4
<1> QED BY <1>1, <1>2, <1>5, <1>6, <1>7

(* f has what WithLinks has after each of the first m links. *)
LinksTo(f, lines, links, m) ==
    f = [n \in 0..m |-> IF n = 0 THEN lines ELSE WithLink(f[n - 1], links[n])]

LEMMA LinksExist ==
    ASSUME NEW lines, NEW links, NEW m \in Nat
    PROVE  \E f : LinksTo(f, lines, links, m)
<1> DEFINE T == {k \in Nat : \E f : LinksTo(f, lines, links, k)}
<1>1. 0 \in T
  <2>1. PICK f : f = [n \in 0..0 |-> lines] OBVIOUS
  <2>2. LinksTo(f, lines, links, 0) BY <2>1 DEF LinksTo
  <2> QED BY <2>2
<1>2. ASSUME NEW k \in T PROVE k + 1 \in T
  <2>1. PICK f : LinksTo(f, lines, links, k) OBVIOUS
  <2>2. PICK last : last = WithLink(f[k], links[k + 1]) OBVIOUS
  <2>3. PICK g : g = [n \in 0..(k + 1) |-> IF n = k + 1 THEN last ELSE f[n]] OBVIOUS
  <2>4. ASSUME NEW n \in 0..(k + 1)
        PROVE  g[n] = IF n = 0 THEN lines ELSE WithLink(g[n - 1], links[n])
    <3>1. CASE n = k + 1
      <4>1. g[n] = last /\ n - 1 = k /\ k \in 0..(k + 1) /\ k # k + 1 /\ n # 0 BY <2>3, <3>1
      <4>2. g[n - 1] = f[k] BY <2>3, <4>1
      <4> QED BY <2>2, <3>1, <4>1, <4>2
    <3>2. CASE n # k + 1
      <4>1. n \in 0..k /\ g[n] = f[n] BY <2>3, <3>2
      <4>2. f[n] = IF n = 0 THEN lines ELSE WithLink(f[n - 1], links[n])
        BY <2>1, <4>1 DEF LinksTo
      <4>3. n # 0 => g[n - 1] = f[n - 1] BY <2>3, <4>1
      <4> QED BY <4>1, <4>2, <4>3
    <3> QED BY <3>1, <3>2
  <2>5. g = [n \in 0..(k + 1) |-> IF n = 0 THEN lines ELSE WithLink(g[n - 1], links[n])]
    BY <2>3, <2>4
  <2>6. LinksTo(g, lines, links, k + 1) BY <2>5 DEF LinksTo
  <2>7. k + 1 \in Nat OBVIOUS
  <2> QED BY <2>6, <2>7
<1>3. T \in SUBSET Nat OBVIOUS
<1>4. T = Nat
  <2> HIDE DEF T
  <2> QED BY <1>1, <1>2, <1>3, NatSet
<1> QED BY <1>4

(* Adding links to lines. *)
LEMMA AddLinks ==
    ASSUME NEW lines, lines.overall \in Seq(AnyLink), NEW links \in Seq(AnyLink)
    PROVE  /\ WithLinks(lines, links).overall \in Seq(AnyLink)
           /\ ToSet(WithLinks(lines, links).overall) = ToSet(lines.overall) \cup ToSet(links)
           /\ Agree(lines) => Agree(WithLinks(lines, links))
<1>0. Len(links) \in Nat /\ DOMAIN links = 1..Len(links)
      /\ \A i \in 1..Len(links) : links[i] \in AnyLink
  OBVIOUS
<1>1. PICK f : f = CHOOSE g : LinksTo(g, lines, links, Len(links)) OBVIOUS
<1>2. WithLinks(lines, links) = f[Len(links)] BY <1>1 DEF WithLinks, LinksTo
<1>3. LinksTo(f, lines, links, Len(links)) BY <1>0, <1>1, LinksExist
<1>4. 0 \in 0..Len(links) /\ \A n \in 1..Len(links) : n \in 0..Len(links) /\ n # 0 BY <1>0
<1>5. f[0] = lines /\ \A n \in 1..Len(links) : f[n] = WithLink(f[n - 1], links[n])
  BY <1>3, <1>4 DEF LinksTo
<1> DEFINE Ok(k) == /\ f[k].overall \in Seq(AnyLink)
                    /\ ToSet(f[k].overall) = ToSet(lines.overall) \cup {links[i] : i \in 1..k}
                    /\ Agree(lines) => Agree(f[k])
           T == {k \in Nat : k =< Len(links) => Ok(k)}
<1>6. 0 \in T
  <2>1. {links[i] : i \in 1..0} = {} OBVIOUS
  <2>2. f[0].overall \in Seq(AnyLink) BY <1>5
  <2>3. ToSet(f[0].overall) = ToSet(lines.overall) \cup {links[i] : i \in 1..0}
    BY <1>5, <2>1
  <2>4. Agree(lines) => Agree(f[0]) BY <1>5
  <2>5. 0 \in Nat OBVIOUS
  <2> QED BY <2>2, <2>3, <2>4, <2>5
<1>7. ASSUME NEW k \in T PROVE k + 1 \in T
  <2> SUFFICES ASSUME k + 1 =< Len(links) PROVE Ok(k + 1)
    OBVIOUS
  <2>1. Ok(k) /\ k + 1 \in 1..Len(links) /\ (k + 1) - 1 = k BY <1>0
  <2>2. PICK a : a = f[k] OBVIOUS
  <2>3. PICK b \in AnyLink : b = links[k + 1] BY <1>0, <2>1
  <2>4. f[k + 1] = WithLink(a, b) BY <1>5, <2>1, <2>2, <2>3
  <2>5. a.overall \in Seq(AnyLink) BY <2>1, <2>2
  <2>6. /\ f[k + 1].overall \in Seq(AnyLink)
        /\ ToSet(f[k + 1].overall) = ToSet(a.overall) \cup {b}
        /\ Agree(a) => Agree(f[k + 1])
    BY <2>4, <2>5, AddLink
  <2>7. {links[i] : i \in 1..(k + 1)} = {links[i] : i \in 1..k} \cup {b}
    <3>1. \A i : i \in 1..(k + 1) <=> i \in 1..k \/ i = k + 1 OBVIOUS
    <3> QED BY <2>3, <3>1
  <2>8. ToSet(f[k + 1].overall) = ToSet(lines.overall) \cup {links[i] : i \in 1..(k + 1)}
    BY <2>1, <2>2, <2>6, <2>7
  <2>9. Agree(lines) => Agree(f[k + 1]) BY <2>1, <2>2, <2>6
  <2> QED BY <2>6, <2>8, <2>9
<1>8. T = Nat
  <2> HIDE DEF T
  <2>1. T \in SUBSET Nat BY DEF T
  <2> QED BY <1>6, <1>7, <2>1, NatSet
<1>9. Len(links) \in T BY <1>0, <1>8
<1>10. Ok(Len(links)) BY <1>9
<1>11. ToSet(links) = {links[i] : i \in 1..Len(links)} BY <1>0 DEF ToSet
<1> QED BY <1>2, <1>10, <1>11

(* A sequence without one of its elements. *)
LEMMA Without ==
    ASSUME NEW S, NEW s \in Seq(S), NEW i \in 1..Len(s)
    PROVE  /\ RemoveAt(s, i) \in Seq(S) /\ Len(RemoveAt(s, i)) = Len(s) - 1
           /\ \A p \in 1..(Len(s) - 1) : RemoveAt(s, i)[p] = IF p < i THEN s[p] ELSE s[p + 1]
<1>1. PICK a : a = SubSeq(s, 1, i - 1) OBVIOUS
<1>2. PICK b : b = SubSeq(s, i + 1, Len(s)) OBVIOUS
<1>3. a \in Seq(S) /\ Len(a) = i - 1 /\ \A p \in 1..(i - 1) : a[p] = s[p] BY <1>1
<1>4. b \in Seq(S) /\ Len(b) = Len(s) - i /\ \A p \in 1..(Len(s) - i) : b[p] = s[p + i]
  <2>1. Len(b) = Len(s) - i /\ b \in Seq(S) BY <1>2
  <2>2. \A p \in 1..(Len(s) - i) : b[p] = s[(i + 1) + p - 1] BY <1>2
  <2>3. \A p \in 1..(Len(s) - i) : (i + 1) + p - 1 = p + i OBVIOUS
  <2> QED BY <2>1, <2>2, <2>3
<1>5. RemoveAt(s, i) = a \o b BY <1>1, <1>2 DEF RemoveAt
<1>6. /\ a \o b \in Seq(S) /\ Len(a \o b) = Len(a) + Len(b)
      /\ \A p \in 1..Len(a) : (a \o b)[p] = a[p]
      /\ \A p \in 1..Len(b) : (a \o b)[Len(a) + p] = b[p]
  <2>1. a \in Seq(S) /\ b \in Seq(S) BY <1>3, <1>4
  <2> QED BY <2>1, Cat
<1>7. Len(s) \in Nat OBVIOUS
<1>8. ASSUME NEW p \in 1..(Len(s) - 1) PROVE (a \o b)[p] = IF p < i THEN s[p] ELSE s[p + 1]
  <2>1. CASE p < i BY <1>3, <1>6, <2>1
  <2>2. CASE ~(p < i)
    <3>1. PICK q : q = p - (i - 1) OBVIOUS
    <3>2. q \in 1..(Len(s) - i) /\ (i - 1) + q = p /\ q + i = p + 1 BY <1>7, <2>2, <3>1
    <3>3. (a \o b)[Len(a) + q] = b[q] /\ b[q] = s[q + i] BY <1>4, <1>6, <3>2
    <3> QED BY <1>3, <2>2, <3>2, <3>3
  <2> QED BY <2>1, <2>2
<1>9. Len(a \o b) = Len(s) - 1 BY <1>3, <1>4, <1>6, <1>7
<1> QED BY <1>5, <1>6, <1>8, <1>9

LEMMA Least ==
    ASSUME NEW T \in SUBSET Nat, T # {}
    PROVE  Min(T) \in T /\ \A y \in T : Min(T) =< y
<1>1. \E x \in T : \A y \in T : x =< y
  <2>1. PICK R : R = OpToRel(<, Nat) OBVIOUS
  <2>2. IsWellFoundedOn(R, Nat) BY <2>1, NatLessThanWellFounded, Zenon
  <2>3. \E x \in T : \A y \in T : ~ (<<y, x>> \in R)
    <3> HIDE <2>1
    <3>1. T \subseteq Nat OBVIOUS
    <3> QED BY <2>2, <3>1, WFMin, Zenon
  <2>4. PICK x \in T : \A y \in T : ~ (y < x) BY <2>1, <2>3 DEF OpToRel
  <2>5. \A y \in T : x =< y BY <2>4
  <2> QED BY <2>5
<1> QED BY <1>1 DEF Min

(* Removing the first occurrence of an element. *)
LEMMA RemoveFirstProps ==
    ASSUME NEW S, NEW s \in Seq(S), NEW e
    PROVE  /\ RemoveFirst(s, e) \in Seq(S)
           /\ (\A i, j \in DOMAIN s : s[i] = s[j] => i = j) =>
                 /\ ToSet(RemoveFirst(s, e)) = ToSet(s) \ {e}
                 /\ \A i, j \in DOMAIN RemoveFirst(s, e) :
                       RemoveFirst(s, e)[i] = RemoveFirst(s, e)[j] => i = j
<1>1. PICK t : t = RemoveFirst(s, e) OBVIOUS
<1>2. CASE \E i \in 1..Len(s) : s[i] = e
  <2>1. PICK I : I = {i \in 1..Len(s) : s[i] = e} OBVIOUS
  <2>2. I \in SUBSET Nat /\ I # {} BY <1>2, <2>1
  <2>3. PICK k : k = Min(I) OBVIOUS
  <2>4. k \in 1..Len(s) /\ s[k] = e BY <2>1, <2>2, <2>3, Least
  <2>5. SelectInSeq(s, LAMBDA v : v = e) = k BY <2>1, <2>2, <2>3 DEF SelectInSeq
  <2>6. t = RemoveAt(s, k) BY <1>1, <1>2, <2>5 DEF RemoveFirst
  <2>7. /\ t \in Seq(S) /\ Len(t) = Len(s) - 1
        /\ \A p \in 1..(Len(s) - 1) : t[p] = IF p < k THEN s[p] ELSE s[p + 1]
    BY <2>4, <2>6, Without
  <2>8. DOMAIN t = 1..(Len(s) - 1) /\ DOMAIN s = 1..Len(s) /\ Len(s) \in Nat BY <2>7
  <2>9. ASSUME \A i, j \in DOMAIN s : s[i] = s[j] => i = j
        PROVE  ToSet(t) = ToSet(s) \ {e} /\ \A i, j \in DOMAIN t : t[i] = t[j] => i = j
    <3>1. PICK at : at = [p \in 1..(Len(s) - 1) |-> IF p < k THEN p ELSE p + 1] OBVIOUS
    <3>2. \A p \in 1..(Len(s) - 1) : at[p] \in 1..Len(s) /\ at[p] # k /\ t[p] = s[at[p]]
      BY <2>4, <2>7, <2>8, <3>1
    <3>3. \A p, q \in 1..(Len(s) - 1) : at[p] = at[q] => p = q BY <2>4, <2>8, <3>1
    <3>4. \A i \in 1..Len(s) : i # k => \E p \in 1..(Len(s) - 1) : at[p] = i
      <4> SUFFICES ASSUME NEW i \in 1..Len(s), i # k
                   PROVE  \E p \in 1..(Len(s) - 1) : at[p] = i
        OBVIOUS
      <4>1. CASE i < k BY <2>4, <2>8, <3>1, <4>1
      <4>2. CASE i > k
        <5>1. i - 1 \in 1..(Len(s) - 1) /\ ~(i - 1 < k) /\ (i - 1) + 1 = i BY <2>4, <2>8, <4>2
        <5> QED BY <3>1, <5>1
      <4> QED BY <2>4, <2>8, <4>1, <4>2
    <3>5. \A p \in 1..(Len(s) - 1) : t[p] # e BY <2>4, <2>8, <2>9, <3>2
    <3>6. ToSet(t) \subseteq ToSet(s) \ {e} BY <2>8, <3>2, <3>5 DEF ToSet
    <3>7. ToSet(s) \ {e} \subseteq ToSet(t)
      <4> SUFFICES ASSUME NEW i \in 1..Len(s), s[i] # e PROVE s[i] \in ToSet(t)
        BY <2>8 DEF ToSet
      <4>1. PICK p \in 1..(Len(s) - 1) : at[p] = i BY <2>4, <3>4
      <4> QED BY <2>8, <3>2, <4>1 DEF ToSet
    <3>8. \A i, j \in DOMAIN t : t[i] = t[j] => i = j BY <2>8, <2>9, <3>2, <3>3
    <3> QED BY <3>6, <3>7, <3>8
  <2> QED BY <1>1, <2>7, <2>9
<1>3. CASE ~ \E i \in 1..Len(s) : s[i] = e
  <2>1. t = s BY <1>1, <1>3 DEF RemoveFirst
  <2>2. e \notin ToSet(s) BY <1>3 DEF ToSet
  <2> QED BY <1>1, <2>1, <2>2
<1> QED BY <1>2, <1>3

(* Taking back a link that has been drawn once. *)
LEMMA DropLink ==
    ASSUME NEW l, overallConnections \in Seq(AnyLink), Agree(Lines),
           l \in DOMAIN sendLists, sendLists[l] = 1, deleteConnection(l)
    PROVE  Agree(Lines') /\ ToSet(overallConnections') = ToSet(overallConnections) \ {l}
<1>1. PICK B : B = sendLists OBVIOUS
<1>2. PICK s \in Seq(AnyLink) : s = overallConnections OBVIOUS
<1>3. PICK C : C = B (-) SetToBag({l}) OBVIOUS
<1>4. PICK t : t = RemoveFirst(s, l) OBVIOUS
<1>5. /\ receiveLists = B /\ DOMAIN B = ToSet(s) /\ \A o \in DOMAIN B : B[o] \in Nat \ {0}
      /\ \A i, j \in DOMAIN s : s[i] = s[j] => i = j
  BY <1>1, <1>2 DEF Agree, Lines
<1>6. sendLists' = C /\ receiveLists' = C /\ overallConnections' = t
  BY <1>1, <1>2, <1>3, <1>4, <1>5 DEF deleteConnection
<1>7. ToSet(t) = ToSet(s) \ {l} /\ \A i, j \in DOMAIN t : t[i] = t[j] => i = j
  BY <1>4, <1>5, RemoveFirstProps
<1>8. PICK D : D = [e \in DOMAIN B |-> IF e \in {l} THEN B[e] - 1 ELSE B[e]] OBVIOUS
<1>9. C = [e \in {d \in DOMAIN D : D[d] > 0} |-> D[e]]
  BY <1>3, <1>8 DEF (-), SetToBag
<1>10. B[l] = 1 /\ l \in DOMAIN B BY <1>1
<1>11. {d \in DOMAIN D : D[d] > 0} = DOMAIN B \ {l}
  BY <1>5, <1>8, <1>10
<1>12. DOMAIN C = DOMAIN B \ {l} /\ \A e \in DOMAIN C : C[e] = B[e]
  BY <1>8, <1>9, <1>11
<1>13. Lines' = [sends |-> C, receives |-> C, overall |-> t] BY <1>6 DEF Lines
<1>14. Agree([sends |-> C, receives |-> C, overall |-> t]) BY <1>5, <1>7, <1>12 DEF Agree
<1> QED BY <1>2, <1>6, <1>7, <1>13, <1>14

(* What checkConnection finds. *)
LEMMA CheckFinds ==
    ASSUME overallConnections \in Seq(AnyLink), NEW l
    PROVE  /\ checkConnection(l) = "new" => Free(l, ToSet(overallConnections))
           /\ checkConnection(l) \in {"receiver_full", "sender_full"} =>
                 \E o \in ToSet(overallConnections) :
                    o # l /\ (SameSender(o, l) \/ SameReceiver(o, l))
<1>1. PICK s \in Seq(AnyLink) : s = overallConnections OBVIOUS
<1>2. PICK I : I = {i \in 1..Len(s) : SameReceiver(s[i], l) \/ SameSender(s[i], l)} OBVIOUS
<1>3. PICK i : i = IF I # {} THEN Min(I) ELSE 0 OBVIOUS
<1>4. checkConnection(l) =
        CASE i = 0 -> "new"
          [] i > 0 /\ s[i] = l -> "exists"
          [] i > 0 /\ s[i] # l /\ SameReceiver(s[i], l) -> "receiver_full"
          [] OTHER -> "sender_full"
  BY <1>1, <1>2, <1>3 DEF checkConnection, SelectInSeq, SameReceiver, SameSender
<1>5. DOMAIN s = 1..Len(s) OBVIOUS
<1>6. CASE I = {}
  <2>1. checkConnection(l) = "new" BY <1>3, <1>4, <1>6
  <2>2. Free(l, ToSet(s)) BY <1>2, <1>5, <1>6 DEF Free, ToSet
  <2> QED BY <1>1, <2>1, <2>2
<1>7. CASE I # {}
  <2>1. I \in SUBSET Nat BY <1>2
  <2>2. i \in I BY <1>3, <1>7, <2>1, Least
  <2>3. i \in 1..Len(s) /\ i # 0 /\ i > 0 BY <1>2, <2>2
  <2>4. checkConnection(l) # "new" BY <1>4, <2>3
  <2>5. s[i] = l => checkConnection(l) = "exists" BY <1>4, <2>3
  <2>6. s[i] \in ToSet(s) BY <1>5, <2>3 DEF ToSet
  <2>7. SameReceiver(s[i], l) \/ SameSender(s[i], l) BY <1>2, <2>2
  <2> QED BY <1>1, <2>4, <2>5, <2>6, <2>7
<1> QED BY <1>6, <1>7

-----------------------------------------------------------------------------
(***************************************************************************)
(* Documents.                                                              *)
(***************************************************************************)

(* A finite set of numbers, given as a part of the values of f. *)
Among(U, f, n) == n \in Nat /\ (\A i \in 1..n : f[i] \in Int) /\ U \subseteq {f[i] : i \in 1..n}
IsMax(x, U, d) == x \in U \cup {d} /\ (U # {} => x \in U) /\ \A y \in U : x >= y
LEMMA Greatest ==
    ASSUME NEW U, NEW f, NEW n, NEW d, Among(U, f, n)
    PROVE  IsMax(MaxOr(U, d), U, d)
<1>0. n \in Nat /\ (\A i \in 1..n : f[i] \in Int) /\ U \in SUBSET {f[i] : i \in 1..n}
  BY DEF Among
<1> DEFINE Ok(k) == \A V \in SUBSET {f[i] : i \in 1..k} :
                        V # {} => \E x \in V : \A y \in V : x >= y
           T == {k \in Nat : k =< n => Ok(k)}
<1>1. 0 \in T
  <2>1. {f[i] : i \in 1..0} = {} OBVIOUS
  <2> QED BY <2>1
<1>2. ASSUME NEW k \in T PROVE k + 1 \in T
  <2> SUFFICES ASSUME k + 1 =< n, NEW V \in SUBSET {f[i] : i \in 1..(k + 1)}, V # {}
               PROVE  \E x \in V : \A y \in V : x >= y
    OBVIOUS
  <2>1. Ok(k) /\ k + 1 \in 1..n /\ k \in Nat BY <1>0
  <2>2. PICK a \in Int : a = f[k + 1] BY <1>0, <2>1
  <2>3. PICK W : W = V \ {a} OBVIOUS
  <2>4. W \in SUBSET {f[i] : i \in 1..k}
    <3>1. \A i : i \in 1..(k + 1) <=> i \in 1..k \/ i = k + 1 BY <2>1
    <3> QED BY <2>2, <2>3, <3>1
  <2>5. CASE W = {}
    <3>1. V = {a} BY <2>3, <2>5
    <3> QED BY <3>1
  <2>6. CASE W # {}
    <3>1. PICK x \in W : \A y \in W : x >= y BY <2>1, <2>4, <2>6
    <3>2. \A y \in W : y \in Int
      <4>1. \A i \in 1..k : f[i] \in Int BY <1>0, <2>1
      <4> QED BY <2>4, <4>1
    <3>3. CASE a \in V /\ a > x
      <4>1. \A y \in V : a >= y BY <2>3, <3>1, <3>2, <3>3
      <4> QED BY <3>3, <4>1
    <3>4. CASE ~(a \in V /\ a > x)
      <4>1. \A y \in V : x >= y BY <2>3, <3>1, <3>2, <3>4
      <4> QED BY <2>3, <4>1
    <3> QED BY <3>3, <3>4
  <2> QED BY <2>5, <2>6
<1>3. T = Nat
  <2> HIDE DEF T
  <2>1. T \in SUBSET Nat BY DEF T
  <2> QED BY <1>1, <1>2, <2>1, NatSet
<1>4. n \in T BY <1>0, <1>3
<1>5. Ok(n) BY <1>4
<1>6. U # {} => Max(U) \in U /\ \A y \in U : Max(U) >= y BY <1>0, <1>5 DEF Max
<1> QED BY <1>6 DEF MaxOr, IsMax

(* t is s with blank connectors added. *)
Lengthened(s, t) ==
    /\ Len(t) >= Len(s)
    /\ \A k \in 1..Len(t) : t[k] = IF k =< Len(s) THEN s[k] ELSE Blank

LEMMA PadProps ==
    ASSUME NEW s \in Seq(Conn), NEW n \in Int
    PROVE  Pad(s, n) \in Seq(Conn) /\ Len(Pad(s, n)) >= n /\ Lengthened(s, Pad(s, n))
<1>1. PICK b : b = [k \in 1..(n - Len(s)) |-> Blank] OBVIOUS
<1>2. Len(s) \in Nat OBVIOUS
<1>3. PICK m \in Nat : 1..(n - Len(s)) = 1..m /\ m >= n - Len(s)
  <2>a. n - Len(s) \in Int BY <1>2
  <2>0. PICK d \in Int : d = n - Len(s) BY <2>a, Zenon
  <2>1. CASE d >= 0
    <3>1. d \in Nat /\ d >= d BY <2>1
    <3> QED BY <2>0, <3>1
  <2>2. CASE d < 0
    <3>1. 1..d = 1..0 /\ 0 >= d /\ 0 \in Nat BY <2>2
    <3> QED BY <2>0, <3>1
  <2> QED BY <2>1, <2>2
<1>4. b = [k \in 1..m |-> Blank] BY <1>1, <1>3
<1>5. Blank \in Conn BY DEF Conn
<1>6. b \in Seq(Conn) /\ Len(b) = m /\ \A k \in 1..m : b[k] = Blank BY <1>4, <1>5
<1>7. PICK t : t = s \o b OBVIOUS
<1>8. /\ t \in Seq(Conn) /\ Len(t) = Len(s) + Len(b)
      /\ \A p \in 1..Len(s) : t[p] = s[p]
      /\ \A p \in 1..Len(b) : t[Len(s) + p] = b[p]
  <2>1. b \in Seq(Conn) BY <1>6
  <2>2. /\ s \o b \in Seq(Conn) /\ Len(s \o b) = Len(s) + Len(b)
        /\ \A p \in 1..Len(s) : (s \o b)[p] = s[p]
        /\ \A p \in 1..Len(b) : (s \o b)[Len(s) + p] = b[p]
    BY <2>1, Cat
  <2> QED BY <1>7, <2>2, Zenon
<1>9. Pad(s, n) = t BY <1>1, <1>7 DEF Pad
<1>10. ASSUME NEW k \in 1..Len(t) PROVE t[k] = IF k =< Len(s) THEN s[k] ELSE Blank
  <2>1. CASE k =< Len(s) BY <1>2, <1>8, <2>1
  <2>2. CASE ~(k =< Len(s))
    <3>1. PICK q : q = k - Len(s) OBVIOUS
    <3>2. q \in 1..m /\ Len(s) + q = k BY <1>2, <1>6, <1>8, <2>2, <3>1
    <3> QED BY <1>6, <1>8, <2>2, <3>2
  <2> QED BY <2>1, <2>2
<1>11. Len(t) >= n /\ Len(t) >= Len(s) BY <1>2, <1>3, <1>6, <1>8
<1> QED BY <1>8, <1>9, <1>10, <1>11 DEF Lengthened

LEMMA DocumentIs == Document = Seq(ComponentSet)
  BY DEF Document, ComponentSet, NameSet

(* The component that a module becomes. *)
Fresh(module) ==
    Component(module.name, module.port, Pad(<<>>, module.nSend), Pad(<<>>, module.nReceive))

LEMMA FreshProps ==
    ASSUME NEW module \in ModuleSet
    PROVE  /\ Fresh(module) \in ComponentSet
           /\ Fresh(module).name = module.name /\ Fresh(module).port = module.port
           /\ Len(Fresh(module).senders) >= module.nSend
           /\ Len(Fresh(module).receivers) >= module.nReceive
           /\ \A k \in 1..Len(Fresh(module).senders) : Fresh(module).senders[k] = Blank
           /\ \A k \in 1..Len(Fresh(module).receivers) : Fresh(module).receivers[k] = Blank
<1>1. module.name \in NameSet /\ module.port \in Nat /\ module.nSend \in Nat /\ module.nReceive \in Nat
  BY DEF ModuleSet
<1>a. <<>> \in Seq(Conn) /\ Len(<<>>) = 0 OBVIOUS
<1>2. PICK e \in Seq(Conn) : e = <<>> BY <1>a
<1>b. Len(e) = 0 BY <1>2
<1>3. PICK s : s = Pad(e, module.nSend) OBVIOUS
<1>4. PICK r : r = Pad(e, module.nReceive) OBVIOUS
<1>5. s \in Seq(Conn) /\ Len(s) >= module.nSend /\ Lengthened(e, s)
  <2> HIDE <1>2
  <2>1. module.nSend \in Int BY <1>1
  <2> QED BY <1>3, <2>1, PadProps, Zenon
<1>6. r \in Seq(Conn) /\ Len(r) >= module.nReceive /\ Lengthened(e, r)
  <2> HIDE <1>2
  <2>1. module.nReceive \in Int BY <1>1
  <2> QED BY <1>4, <2>1, PadProps, Zenon
<1>7. \A k \in 1..Len(s) : s[k] = Blank BY <1>5, <1>b DEF Lengthened
<1>8. \A k \in 1..Len(r) : r[k] = Blank BY <1>6, <1>b DEF Lengthened
<1>9. Fresh(module) = [name |-> module.name, port |-> module.port, senders |-> s, receivers |-> r]
  BY <1>2, <1>3, <1>4 DEF Fresh, Component
<1>10. Fresh(module) \in ComponentSet BY <1>1, <1>5, <1>6, <1>9 DEF ComponentSet
<1>11. Fresh(module).senders = s /\ Fresh(module).receivers = r
       /\ Fresh(module).name = module.name /\ Fresh(module).port = module.port
  BY <1>9
<1> QED BY <1>5, <1>6, <1>7, <1>8, <1>10, <1>11

(* new holds the components that the modules without one get. *)
News(mods, doc, new) ==
    /\ \E src \in [1..Len(new) -> 1..Len(mods)] :
          /\ \A p, q \in 1..Len(new) : src[p] = src[q] => p = q
          /\ \A p \in 1..Len(new) : /\ new[p] = Fresh(mods[src[p]])
                                    /\ mods[src[p]].name \notin Names(doc)
    /\ \A m \in 1..Len(mods) : mods[m].name \notin Names(doc) =>
          \E p \in 1..Len(new) : new[p] = Fresh(mods[m])

LEMMA NewProps ==
    ASSUME moduleArray \in Seq(ModuleSet), NEW doc
    PROVE  NewComponents(doc) \in Seq(ComponentSet) /\ News(moduleArray, doc, NewComponents(doc))
<1>1. PICK mods \in Seq(ModuleSet) : mods = moduleArray OBVIOUS
<1>2. PICK ss : ss = [m \in 1..Len(mods) |-> IF mods[m].name \in Names(doc) THEN <<>>
                                             ELSE <<Fresh(mods[m])>>]
  OBVIOUS
<1>3. DOMAIN mods = 1..Len(mods) /\ Len(mods) \in Nat /\ \A m \in 1..Len(mods) : mods[m] \in ModuleSet
  OBVIOUS
<1>4. NewComponents(doc) = Flatten(ss) BY <1>1, <1>2, <1>3 DEF NewComponents, Fresh
<1>5. \A m \in 1..Len(mods) : Fresh(mods[m]) \in ComponentSet BY <1>3, FreshProps
<1>6. ASSUME NEW m \in 1..Len(mods)
      PROVE  /\ ss[m] \in Seq(ComponentSet) /\ Len(ss[m]) =< 1
             /\ IF mods[m].name \in Names(doc) THEN Len(ss[m]) = 0
                ELSE Len(ss[m]) = 1 /\ ss[m][1] = Fresh(mods[m])
  <2>1. PICK c \in ComponentSet : c = Fresh(mods[m]) BY <1>5
  <2>2. CASE mods[m].name \in Names(doc)
    <3>1. ss[m] = <<>> BY <1>2, <2>2
    <3> QED BY <2>2, <3>1
  <2>3. CASE mods[m].name \notin Names(doc)
    <3>1. ss[m] = <<c>> BY <1>2, <2>1, <2>3
    <3>2. <<c>> \in Seq(ComponentSet) /\ Len(<<c>>) = 1 /\ <<c>>[1] = c OBVIOUS
    <3> QED BY <2>1, <2>3, <3>1, <3>2
  <2> QED BY <2>2, <2>3
<1>7. ss \in Seq(Seq(ComponentSet)) /\ Len(ss) = Len(mods) BY <1>2, <1>3, <1>6
<1>8. PICK new : new = Flatten(ss) OBVIOUS
<1>9. new \in Seq(ComponentSet) /\ \A x : In(x, new) <=> \E i \in 1..Len(mods) : In(x, ss[i])
  BY <1>7, <1>8, FlatElements
<1>10. Ones(ss, new, Len(mods))
  BY <1>6, <1>7, <1>8, FlattenOnes
<1>11. PICK src \in [1..Len(new) -> 1..Len(mods)] :
          /\ \A p, q \in 1..Len(new) : src[p] = src[q] => p = q
          /\ \A p \in 1..Len(new) : Len(ss[src[p]]) = 1 /\ ss[src[p]][1] = new[p]
  BY <1>10 DEF Ones
<1>12. \A p \in 1..Len(new) : /\ new[p] = Fresh(mods[src[p]])
                              /\ mods[src[p]].name \notin Names(doc)
  <2> SUFFICES ASSUME NEW p \in 1..Len(new)
               PROVE  new[p] = Fresh(mods[src[p]]) /\ mods[src[p]].name \notin Names(doc)
    OBVIOUS
  <2>1. PICK m \in 1..Len(mods) : m = src[p] OBVIOUS
  <2>2. Len(ss[m]) = 1 /\ ss[m][1] = new[p] BY <1>11, <2>1
  <2>3. mods[m].name \notin Names(doc) BY <1>6, <2>2
  <2>4. new[p] = Fresh(mods[m]) BY <1>6, <2>2, <2>3
  <2> QED BY <2>1, <2>3, <2>4
<1>13. ASSUME NEW m \in 1..Len(mods), mods[m].name \notin Names(doc)
       PROVE  \E p \in 1..Len(new) : new[p] = Fresh(mods[m])
  <2>1. Len(ss[m]) = 1 /\ ss[m][1] = Fresh(mods[m]) BY <1>6, <1>13
  <2>2. In(Fresh(mods[m]), ss[m])
    <3>1. 1 \in 1..Len(ss[m]) BY <2>1
    <3> QED BY <2>1, <3>1 DEF In
  <2>3. In(Fresh(mods[m]), new) BY <1>9, <2>2
  <2> QED BY <2>3 DEF In
<1>14. News(mods, doc, new) BY <1>11, <1>12, <1>13 DEF News
<1> QED BY <1>1, <1>4, <1>8, <1>9, <1>14

(* full is doc with the connectors and the modules of the canvas. *)
Merged(mods, doc, full) ==
    /\ Len(full) >= Len(doc)
    /\ \A i \in 1..Len(doc) : /\ full[i].name = doc[i].name /\ full[i].port = doc[i].port
                              /\ Lengthened(doc[i].senders, full[i].senders)
                              /\ Lengthened(doc[i].receivers, full[i].receivers)
    /\ \A i \in (Len(doc) + 1)..Len(full) : \E m \in 1..Len(mods) :
          full[i] = Fresh(mods[m]) /\ mods[m].name \notin Names(doc)
    /\ \A i, j \in (Len(doc) + 1)..Len(full) :
          /\ PortsDiffer(mods) /\ full[i].port = full[j].port => i = j
          /\ DistinctNames(mods) /\ full[i].name = full[j].name => i = j

(* The component of a document after the merge. *)
Grown(mods, c) ==
    LET named == {j \in DOMAIN mods : mods[j].name = c.name}
    IN  [c EXCEPT !.senders = Pad(@, MaxOr({mods[j].nSend : j \in named}, 0)),
                  !.receivers = Pad(@, MaxOr({mods[j].nReceive : j \in named}, 0))]

LEMMA GrownProps ==
    ASSUME NEW mods \in Seq(ModuleSet), NEW c \in ComponentSet
    PROVE  /\ Grown(mods, c) \in ComponentSet
           /\ Grown(mods, c).name = c.name /\ Grown(mods, c).port = c.port
           /\ Lengthened(c.senders, Grown(mods, c).senders)
           /\ Lengthened(c.receivers, Grown(mods, c).receivers)
           /\ \A m \in 1..Len(mods) : mods[m].name = c.name =>
                 /\ Len(Grown(mods, c).senders) >= mods[m].nSend
                 /\ Len(Grown(mods, c).receivers) >= mods[m].nReceive
<1>0. /\ DOMAIN mods = 1..Len(mods) /\ Len(mods) \in Nat
      /\ \A m \in 1..Len(mods) : mods[m].nSend \in Nat /\ mods[m].nReceive \in Nat
  <2>1. DOMAIN mods = 1..Len(mods) /\ Len(mods) \in Nat OBVIOUS
  <2>2. \A m \in 1..Len(mods) : mods[m] \in ModuleSet OBVIOUS
  <2>3. \A x \in ModuleSet : x.nSend \in Nat /\ x.nReceive \in Nat BY DEF ModuleSet
  <2> QED BY <2>1, <2>2, <2>3
<1>1. c.name \in NameSet /\ c.port \in Nat /\ c.senders \in Seq(Conn) /\ c.receivers \in Seq(Conn)
  BY DEF ComponentSet
<1>2. PICK f : f = [m \in 1..Len(mods) |-> mods[m].nSend] OBVIOUS
<1>3. PICK g : g = [m \in 1..Len(mods) |-> mods[m].nReceive] OBVIOUS
<1>4. PICK N : N = {j \in DOMAIN mods : mods[j].name = c.name} OBVIOUS
<1>5. PICK a : a = MaxOr({mods[j].nSend : j \in N}, 0) OBVIOUS
<1>6. PICK b : b = MaxOr({mods[j].nReceive : j \in N}, 0) OBVIOUS
<1>7. a \in Int /\ \A j \in N : a >= mods[j].nSend
  <2>1. \A m \in 1..Len(mods) : f[m] \in Int BY <1>0, <1>2
  <2>2. PICK U : U = {mods[j].nSend : j \in N} OBVIOUS
  <2>3. U \in SUBSET {f[m] : m \in 1..Len(mods)} BY <1>0, <1>2, <1>4, <2>2
  <2>a. Among(U, f, Len(mods)) BY <1>0, <2>1, <2>3 DEF Among
  <2>4. MaxOr(U, 0) \in U \cup {0} /\ \A y \in U : MaxOr(U, 0) >= y
    <3>1. IsMax(MaxOr(U, 0), U, 0) BY <2>a, Greatest
    <3> QED BY <3>1 DEF IsMax
  <2>5. \A y \in U : y \in Int BY <1>0, <1>4, <2>2
  <2> QED BY <1>5, <2>2, <2>4, <2>5
<1>8. b \in Int /\ \A j \in N : b >= mods[j].nReceive
  <2>1. \A m \in 1..Len(mods) : g[m] \in Int BY <1>0, <1>3
  <2>2. PICK U : U = {mods[j].nReceive : j \in N} OBVIOUS
  <2>3. U \in SUBSET {g[m] : m \in 1..Len(mods)} BY <1>0, <1>3, <1>4, <2>2
  <2>a. Among(U, g, Len(mods)) BY <1>0, <2>1, <2>3 DEF Among
  <2>4. MaxOr(U, 0) \in U \cup {0} /\ \A y \in U : MaxOr(U, 0) >= y
    <3>1. IsMax(MaxOr(U, 0), U, 0) BY <2>a, Greatest
    <3> QED BY <3>1 DEF IsMax
  <2>5. \A y \in U : y \in Int BY <1>0, <1>4, <2>2
  <2> QED BY <1>6, <2>2, <2>4, <2>5
<1>9. PICK s : s = Pad(c.senders, a) OBVIOUS
<1>10. PICK r : r = Pad(c.receivers, b) OBVIOUS
<1>11. s \in Seq(Conn) /\ Len(s) >= a /\ Lengthened(c.senders, s) BY <1>1, <1>7, <1>9, PadProps
<1>12. r \in Seq(Conn) /\ Len(r) >= b /\ Lengthened(c.receivers, r) BY <1>1, <1>8, <1>10, PadProps
<1>13. Grown(mods, c) = [c EXCEPT !.senders = s, !.receivers = r]
  BY <1>4, <1>5, <1>6, <1>9, <1>10 DEF Grown
<1>14. /\ Grown(mods, c) \in ComponentSet
       /\ Grown(mods, c).name = c.name /\ Grown(mods, c).port = c.port
       /\ Grown(mods, c).senders = s /\ Grown(mods, c).receivers = r
  BY <1>1, <1>11, <1>12, <1>13 DEF ComponentSet
<1>15. \A m \in 1..Len(mods) : mods[m].name = c.name =>
         Len(s) >= mods[m].nSend /\ Len(r) >= mods[m].nReceive
  <2> SUFFICES ASSUME NEW m \in 1..Len(mods), mods[m].name = c.name
               PROVE  Len(s) >= mods[m].nSend /\ Len(r) >= mods[m].nReceive
    OBVIOUS
  <2>1. a >= mods[m].nSend /\ b >= mods[m].nReceive BY <1>0, <1>4, <1>7, <1>8
  <2>2. Len(s) \in Int /\ Len(r) \in Int BY <1>11, <1>12
  <2> QED BY <1>0, <1>7, <1>8, <1>11, <1>12, <2>1, <2>2
<1> QED BY <1>11, <1>12, <1>14, <1>15

LEMMA MergeProps ==
    ASSUME moduleArray \in Seq(ModuleSet), NEW doc \in Document
    PROVE  /\ Merge(doc) \in Document /\ Merged(moduleArray, doc, Merge(doc))
           /\ Covers(moduleArray, Merge(doc))
<1>1. PICK mods \in Seq(ModuleSet) : mods = moduleArray OBVIOUS
<1>2. PICK old : old = [i \in DOMAIN doc |-> Grown(mods, doc[i])] OBVIOUS
<1>3. PICK new : new = NewComponents(doc) OBVIOUS
<1>4. Merge(doc) = old \o new BY <1>1, <1>2, <1>3 DEF Merge, Grown
<1>5. doc \in Seq(ComponentSet) BY DocumentIs
<1>6. DOMAIN doc = 1..Len(doc) /\ Len(doc) \in Nat /\ \A i \in 1..Len(doc) : doc[i] \in ComponentSet
  BY <1>5
<1>7. \A i \in 1..Len(doc) : old[i] = Grown(mods, doc[i]) BY <1>2, <1>6
<1>8. \A i \in 1..Len(doc) : Grown(mods, doc[i]) \in ComponentSet BY <1>6, GrownProps
<1>9. old \in Seq(ComponentSet) /\ Len(old) = Len(doc) BY <1>2, <1>6, <1>8
<1>10. new \in Seq(ComponentSet) /\ News(mods, doc, new) BY <1>1, <1>3, NewProps
<1>11. PICK full : full = old \o new OBVIOUS
<1>12. /\ full \in Seq(ComponentSet) /\ Len(full) = Len(doc) + Len(new) /\ Len(new) \in Nat
       /\ \A p \in 1..Len(doc) : full[p] = Grown(mods, doc[p])
       /\ \A p \in 1..Len(new) : full[Len(doc) + p] = new[p]
  <2>1. old \in Seq(ComponentSet) /\ new \in Seq(ComponentSet) BY <1>9, <1>10
  <2>2. /\ old \o new \in Seq(ComponentSet) /\ Len(old \o new) = Len(old) + Len(new)
        /\ \A p \in 1..Len(old) : (old \o new)[p] = old[p]
        /\ \A p \in 1..Len(new) : (old \o new)[Len(old) + p] = new[p]
    BY <2>1, Cat
  <2>3. Len(new) \in Nat BY <2>1
  <2> QED BY <1>7, <1>9, <1>11, <2>2, <2>3, Zenon
<1>13. PICK src \in [1..Len(new) -> 1..Len(mods)] :
          /\ \A p, q \in 1..Len(new) : src[p] = src[q] => p = q
          /\ \A p \in 1..Len(new) : /\ new[p] = Fresh(mods[src[p]])
                                    /\ mods[src[p]].name \notin Names(doc)
  BY <1>10 DEF News
<1>14. \A i \in (Len(doc) + 1)..Len(full) : \E p \in 1..Len(new) : i = Len(doc) + p
  <2> SUFFICES ASSUME NEW i \in (Len(doc) + 1)..Len(full)
               PROVE  \E p \in 1..Len(new) : i = Len(doc) + p
    OBVIOUS
  <2>1. i - Len(doc) \in 1..Len(new) /\ i = Len(doc) + (i - Len(doc)) BY <1>6, <1>12
  <2> QED BY <2>1
<1>15. \A p \in 1..Len(new) : full[Len(doc) + p] = Fresh(mods[src[p]]) /\ src[p] \in 1..Len(mods)
  BY <1>12, <1>13
<1>16. \A m \in 1..Len(mods) : Fresh(mods[m]).name = mods[m].name /\ Fresh(mods[m]).port = mods[m].port
  BY FreshProps
<1>17. DOMAIN mods = 1..Len(mods) OBVIOUS
<1>18. \A i, j \in (Len(doc) + 1)..Len(full) :
          /\ PortsDiffer(mods) /\ full[i].port = full[j].port => i = j
          /\ DistinctNames(mods) /\ full[i].name = full[j].name => i = j
  <2> SUFFICES ASSUME NEW i \in (Len(doc) + 1)..Len(full), NEW j \in (Len(doc) + 1)..Len(full)
               PROVE  /\ PortsDiffer(mods) /\ full[i].port = full[j].port => i = j
                      /\ DistinctNames(mods) /\ full[i].name = full[j].name => i = j
    OBVIOUS
  <2>1. PICK p \in 1..Len(new) : i = Len(doc) + p BY <1>14
  <2>2. PICK q \in 1..Len(new) : j = Len(doc) + q BY <1>14
  <2>3. PICK m \in 1..Len(mods) : m = src[p] BY <1>15
  <2>4. PICK n \in 1..Len(mods) : n = src[q] BY <1>15
  <2>5. full[i] = Fresh(mods[m]) /\ full[j] = Fresh(mods[n]) BY <1>15, <2>1, <2>2, <2>3, <2>4
  <2>6. full[i].port = mods[m].port /\ full[j].port = mods[n].port
        /\ full[i].name = mods[m].name /\ full[j].name = mods[n].name
    BY <1>16, <2>5
  <2>7. m = n => i = j BY <1>13, <2>1, <2>2, <2>3, <2>4
  <2>8. PortsDiffer(mods) /\ full[i].port = full[j].port => m = n
    BY <1>17, <2>6 DEF PortsDiffer
  <2>9. DistinctNames(mods) /\ full[i].name = full[j].name => m = n
    BY <1>17, <2>6 DEF DistinctNames
  <2> QED BY <2>7, <2>8, <2>9
<1>19. \A i \in (Len(doc) + 1)..Len(full) : \E m \in 1..Len(mods) :
          full[i] = Fresh(mods[m]) /\ mods[m].name \notin Names(doc)
  <2> SUFFICES ASSUME NEW i \in (Len(doc) + 1)..Len(full)
               PROVE  \E m \in 1..Len(mods) :
                          full[i] = Fresh(mods[m]) /\ mods[m].name \notin Names(doc)
    OBVIOUS
  <2>1. PICK p \in 1..Len(new) : i = Len(doc) + p BY <1>14
  <2>2. PICK m \in 1..Len(mods) : m = src[p] BY <1>15
  <2> QED BY <1>13, <1>15, <2>1, <2>2
<1>20. \A i \in 1..Len(doc) : /\ full[i].name = doc[i].name /\ full[i].port = doc[i].port
                              /\ Lengthened(doc[i].senders, full[i].senders)
                              /\ Lengthened(doc[i].receivers, full[i].receivers)
  BY <1>6, <1>12, GrownProps
<1>21. Len(full) >= Len(doc) BY <1>6, <1>12
<1>22. Merged(mods, doc, full) BY <1>18, <1>19, <1>20, <1>21 DEF Merged
<1>23. DOMAIN full = 1..Len(full) BY <1>12
<1>24. Covers(mods, full)
  <2> SUFFICES ASSUME NEW m \in 1..Len(mods)
               PROVE  \E i \in 1..Len(full) : /\ full[i].name = mods[m].name
                                              /\ Len(full[i].senders) >= mods[m].nSend
                                              /\ Len(full[i].receivers) >= mods[m].nReceive
    BY <1>17, <1>23 DEF Covers
  <2>1. CASE mods[m].name \in Names(doc)
    <3>1. PICK i \in 1..Len(doc) : doc[i].name = mods[m].name BY <1>6, <2>1 DEF Names
    <3>2. Len(full[i].senders) >= mods[m].nSend /\ Len(full[i].receivers) >= mods[m].nReceive
      BY <1>6, <1>12, <3>1, GrownProps
    <3>3. i \in 1..Len(full) BY <1>6, <1>12
    <3> QED BY <1>20, <3>1, <3>2, <3>3
  <2>2. CASE mods[m].name \notin Names(doc)
    <3>1. PICK p \in 1..Len(new) : new[p] = Fresh(mods[m]) BY <1>10, <2>2 DEF News
    <3>2. PICK i : i = Len(doc) + p OBVIOUS
    <3>3. i \in 1..Len(full) /\ full[i] = Fresh(mods[m]) BY <1>6, <1>12, <3>1, <3>2
    <3>4. mods[m] \in ModuleSet OBVIOUS
    <3> QED BY <3>3, <3>4, FreshProps
  <2> QED BY <2>1, <2>2
<1> QED BY <1>1, <1>4, <1>11, <1>12, <1>22, <1>24, DocumentIs

Sides == {"senders", "receivers"}

LEMMA SidesOf ==
    ASSUME NEW doc \in Document, NEW i \in 1..Len(doc), NEW side \in Sides
    PROVE  doc[i][side] \in Seq(Conn) /\ DOMAIN doc[i][side] = 1..Len(doc[i][side])
<1>1. doc[i] \in ComponentSet BY DocumentIs
<1>2. doc[i].senders \in Seq(Conn) /\ doc[i].receivers \in Seq(Conn) BY <1>1 DEF ComponentSet
<1>3. side = "senders" \/ side = "receivers" BY DEF Sides
<1>4. doc[i][side] \in Seq(Conn) BY <1>2, <1>3
<1> QED BY <1>4

(* The ports of a document are those of its connectors. *)
PortAt(doc, p) ==
    \E i \in 1..Len(doc), side \in Sides : \E k \in 1..Len(doc[i][side]) :
        doc[i][side][k].transport = "tcp" /\ doc[i][side][k].key = p

LEMMA PortsAre ==
    ASSUME NEW doc \in Document
    PROVE  \A p : p \in Ports(doc) <=> PortAt(doc, p)
<1>1. DOMAIN doc = 1..Len(doc) BY DocumentIs
<1>2. PICK C : C = UNION {ToSet(doc[i].senders) \cup ToSet(doc[i].receivers) : i \in DOMAIN doc}
  OBVIOUS
<1>3. \A p : p \in Ports(doc) <=> \E c \in C : c.transport = "tcp" /\ c.key = p
  BY <1>2 DEF Ports
<1>4. \A c : c \in C <=> \E i \in 1..Len(doc) : c \in ToSet(doc[i].senders) \/ c \in ToSet(doc[i].receivers)
  BY <1>1, <1>2
<1>5. \A i \in 1..Len(doc) : \A c :
        /\ c \in ToSet(doc[i].senders) <=>
              \E k \in 1..Len(doc[i]["senders"]) : doc[i]["senders"][k] = c
        /\ c \in ToSet(doc[i].receivers) <=>
              \E k \in 1..Len(doc[i]["receivers"]) : doc[i]["receivers"][k] = c
  <2>1. \A i \in 1..Len(doc) : /\ DOMAIN doc[i]["senders"] = 1..Len(doc[i]["senders"])
                               /\ DOMAIN doc[i]["receivers"] = 1..Len(doc[i]["receivers"])
    BY SidesOf DEF Sides
  <2> QED BY <2>1 DEF ToSet
<1>6. ASSUME NEW p, p \in Ports(doc) PROVE PortAt(doc, p)
  <2>1. PICK c \in C : c.transport = "tcp" /\ c.key = p BY <1>3, <1>6
  <2>2. PICK i \in 1..Len(doc) : c \in ToSet(doc[i].senders) \/ c \in ToSet(doc[i].receivers)
    BY <1>4
  <2>3. CASE c \in ToSet(doc[i].senders)
    <3>1. PICK k \in 1..Len(doc[i]["senders"]) : doc[i]["senders"][k] = c BY <1>5, <2>3
    <3> QED BY <2>1, <3>1 DEF PortAt, Sides
  <2>4. CASE c \in ToSet(doc[i].receivers)
    <3>1. PICK k \in 1..Len(doc[i]["receivers"]) : doc[i]["receivers"][k] = c BY <1>5, <2>4
    <3> QED BY <2>1, <3>1 DEF PortAt, Sides
  <2> QED BY <2>2, <2>3, <2>4
<1>7. ASSUME NEW p, PortAt(doc, p) PROVE p \in Ports(doc)
  <2>1. PICK i \in 1..Len(doc), side \in Sides : \E k \in 1..Len(doc[i][side]) :
           doc[i][side][k].transport = "tcp" /\ doc[i][side][k].key = p
    BY <1>7 DEF PortAt
  <2>2. PICK k \in 1..Len(doc[i][side]) :
           doc[i][side][k].transport = "tcp" /\ doc[i][side][k].key = p
    BY <2>1
  <2>3. PICK c : c = doc[i][side][k] OBVIOUS
  <2>4. c \in ToSet(doc[i].senders) \/ c \in ToSet(doc[i].receivers)
    BY <1>5, <2>3 DEF Sides
  <2>5. c \in C BY <1>4, <2>4
  <2> QED BY <1>3, <2>2, <2>3, <2>5
<1> QED BY <1>6, <1>7

LEMMA MergedPorts ==
    ASSUME NEW mods \in Seq(ModuleSet), NEW doc \in Document, NEW full \in Document,
           Merged(mods, doc, full), OnCanvas(mods, doc)
    PROVE  /\ OnCanvas(mods, full)
           /\ PortsDiffer(doc) /\ PortsDiffer(mods) => PortsDiffer(full)
<1>0. /\ DOMAIN doc = 1..Len(doc) /\ DOMAIN full = 1..Len(full) /\ DOMAIN mods = 1..Len(mods)
      /\ Len(doc) \in Nat /\ Len(full) \in Nat /\ Len(full) >= Len(doc)
  <2>1. doc \in Seq(ComponentSet) /\ full \in Seq(ComponentSet) BY DocumentIs
  <2>2. Len(full) >= Len(doc) BY DEF Merged
  <2> QED BY <2>1, <2>2
<1>1. \A i \in 1..Len(full) : i \in 1..Len(doc) \/ i \in (Len(doc) + 1)..Len(full) BY <1>0
<1>2. \A i \in 1..Len(doc) : full[i].name = doc[i].name /\ full[i].port = doc[i].port BY DEF Merged
<1>3. \A i \in (Len(doc) + 1)..Len(full) : \E m \in 1..Len(mods) :
         full[i].name = mods[m].name /\ full[i].port = mods[m].port /\ mods[m].name \notin Names(doc)
  <2>1. \A m \in 1..Len(mods) : Fresh(mods[m]).name = mods[m].name /\ Fresh(mods[m]).port = mods[m].port
    BY FreshProps
  <2> QED BY <2>1 DEF Merged
<1>4. \A i \in 1..Len(doc) : \E m \in 1..Len(mods) :
         doc[i].name = mods[m].name /\ doc[i].port = mods[m].port
  BY <1>0 DEF OnCanvas
<1>5. OnCanvas(mods, full)
  <2>1. ASSUME NEW i \in 1..Len(full)
        PROVE  \E m \in 1..Len(mods) : full[i].name = mods[m].name /\ full[i].port = mods[m].port
    <3>1. CASE i \in 1..Len(doc) BY <1>2, <1>4, <3>1, Zenon
    <3>2. CASE i \in (Len(doc) + 1)..Len(full) BY <1>3, <3>2, Zenon
    <3> QED BY <1>1, <3>1, <3>2, Zenon
  <2> QED BY <1>0, <2>1, Zenon DEF OnCanvas
<1>6. ASSUME PortsDiffer(doc), PortsDiffer(mods) PROVE PortsDiffer(full)
  <2>1. ASSUME NEW i \in 1..Len(doc), NEW j \in (Len(doc) + 1)..Len(full),
               full[i].port = full[j].port
        PROVE  FALSE
    <3>1. PICK m \in 1..Len(mods) : doc[i].name = mods[m].name /\ doc[i].port = mods[m].port
      BY <1>4
    <3>2. PICK n \in 1..Len(mods) : /\ full[j].name = mods[n].name /\ full[j].port = mods[n].port
                                    /\ mods[n].name \notin Names(doc)
      BY <1>3
    <3>3. m = n BY <1>0, <1>2, <1>6, <2>1, <3>1, <3>2 DEF PortsDiffer
    <3>4. doc[i].name \in Names(doc) BY <1>0 DEF Names
    <3> QED BY <3>1, <3>2, <3>3, <3>4
  <2>2. \A i, j \in 1..Len(doc) : full[i].port = full[j].port => i = j
    BY <1>0, <1>2, <1>6 DEF PortsDiffer
  <2>3. \A i, j \in (Len(doc) + 1)..Len(full) : full[i].port = full[j].port => i = j
    BY <1>6 DEF Merged
  <2>4. \A i \in 1..Len(doc), j \in (Len(doc) + 1)..Len(full) : full[i].port # full[j].port
    BY <2>1
  <2> QED BY <1>0, <1>1, <2>2, <2>3, <2>4 DEF PortsDiffer
<1> QED BY <1>5, <1>6

LEMMA MergedNames ==
    ASSUME NEW mods \in Seq(ModuleSet), NEW doc \in Document, NEW full \in Document,
           Merged(mods, doc, full), DistinctNames(doc), DistinctNames(mods)
    PROVE  DistinctNames(full)
<1>0. /\ DOMAIN doc = 1..Len(doc) /\ DOMAIN full = 1..Len(full) /\ DOMAIN mods = 1..Len(mods)
      /\ Len(doc) \in Nat /\ Len(full) \in Nat /\ Len(full) >= Len(doc)
  <2>1. doc \in Seq(ComponentSet) /\ full \in Seq(ComponentSet) BY DocumentIs
  <2>2. Len(full) >= Len(doc) BY DEF Merged
  <2> QED BY <2>1, <2>2
<1>1. \A i \in 1..Len(full) : i \in 1..Len(doc) \/ i \in (Len(doc) + 1)..Len(full) BY <1>0
<1>2. \A i \in 1..Len(doc) : full[i].name = doc[i].name BY DEF Merged
<1>3. \A i \in (Len(doc) + 1)..Len(full) : full[i].name \notin Names(doc)
  <2>1. \A m \in 1..Len(mods) : Fresh(mods[m]).name = mods[m].name BY FreshProps
  <2> QED BY <2>1 DEF Merged
<1>4. \A i \in 1..Len(doc) : full[i].name \in Names(doc) BY <1>0, <1>2 DEF Names
<1>5. \A i, j \in 1..Len(doc) : full[i].name = full[j].name => i = j
  BY <1>0, <1>2 DEF DistinctNames
<1>6. \A i, j \in (Len(doc) + 1)..Len(full) : full[i].name = full[j].name => i = j
  BY DEF Merged
<1> QED BY <1>0, <1>1, <1>3, <1>4, <1>5, <1>6 DEF DistinctNames

(* A merge puts no value anywhere. *)
LEMMA MergedValues ==
    ASSUME NEW mods \in Seq(ModuleSet), NEW doc \in Document, NEW full \in Document,
           Merged(mods, doc, full)
    PROVE  /\ \A i \in 1..Len(full), side \in Sides : \A k \in 1..Len(full[i][side]) :
                 full[i][side][k] # Blank =>
                    /\ i \in 1..Len(doc) /\ k \in 1..Len(doc[i][side])
                    /\ doc[i][side][k] = full[i][side][k]
           /\ \A i \in 1..Len(doc), side \in Sides : \A k \in 1..Len(doc[i][side]) :
                 /\ i \in 1..Len(full) /\ k \in 1..Len(full[i][side])
                 /\ full[i][side][k] = doc[i][side][k]
<1>0. Len(doc) \in Nat /\ Len(full) \in Nat /\ Len(full) >= Len(doc)
  <2>1. doc \in Seq(ComponentSet) /\ full \in Seq(ComponentSet) BY DocumentIs
  <2>2. Len(full) >= Len(doc) BY DEF Merged
  <2> QED BY <2>1, <2>2
<1>1. \A i \in 1..Len(doc), side \in Sides : Lengthened(doc[i][side], full[i][side])
  <2>1. \A i \in 1..Len(doc) : /\ Lengthened(doc[i]["senders"], full[i]["senders"])
                               /\ Lengthened(doc[i]["receivers"], full[i]["receivers"])
    BY DEF Merged
  <2> QED BY <2>1 DEF Sides
<1>2. ASSUME NEW i \in 1..Len(full), NEW side \in Sides, NEW k \in 1..Len(full[i][side]),
             full[i][side][k] # Blank
      PROVE  i \in 1..Len(doc) /\ k \in 1..Len(doc[i][side]) /\ doc[i][side][k] = full[i][side][k]
  <2>1. i \in 1..Len(doc)
    <3> SUFFICES ASSUME i \notin 1..Len(doc) PROVE FALSE
      OBVIOUS
    <3>1. i \in (Len(doc) + 1)..Len(full) BY <1>0
    <3>2. PICK m \in 1..Len(mods) : full[i] = Fresh(mods[m]) BY <3>1 DEF Merged
    <3>3. mods[m] \in ModuleSet OBVIOUS
    <3>4. /\ \A n \in 1..Len(full[i]["senders"]) : full[i]["senders"][n] = Blank
          /\ \A n \in 1..Len(full[i]["receivers"]) : full[i]["receivers"][n] = Blank
      BY <3>2, <3>3, FreshProps
    <3> QED BY <1>2, <3>4 DEF Sides
  <2>2. full[i][side][k] = IF k =< Len(doc[i][side]) THEN doc[i][side][k] ELSE Blank
    BY <1>1, <2>1 DEF Lengthened
  <2>3. k =< Len(doc[i][side]) /\ doc[i][side][k] = full[i][side][k] BY <1>2, <2>2
  <2>4. doc[i][side] \in Seq(Conn) /\ full[i][side] \in Seq(Conn) BY <2>1, SidesOf
  <2>5. Len(doc[i][side]) \in Nat /\ Len(full[i][side]) \in Nat BY <2>4
  <2> QED BY <2>1, <2>3, <2>5
<1>3. ASSUME NEW i \in 1..Len(doc), NEW side \in Sides, NEW k \in 1..Len(doc[i][side])
      PROVE  i \in 1..Len(full) /\ k \in 1..Len(full[i][side]) /\ full[i][side][k] = doc[i][side][k]
  <2>1. i \in 1..Len(full) BY <1>0
  <2>2. doc[i][side] \in Seq(Conn) /\ full[i][side] \in Seq(Conn) BY <2>1, SidesOf
  <2>3. Len(doc[i][side]) \in Nat /\ Len(full[i][side]) \in Nat BY <2>2
  <2>4. Len(full[i][side]) >= Len(doc[i][side]) BY <1>1 DEF Lengthened
  <2>5. k \in 1..Len(full[i][side]) /\ k =< Len(doc[i][side]) BY <2>3, <2>4
  <2>6. full[i][side][k] = doc[i][side][k] BY <1>1, <2>5 DEF Lengthened
  <2> QED BY <2>1, <2>5, <2>6
<1> QED BY <1>2, <1>3

(* The connectors have the same values for the modules of both canvases. *)
SameAt(mods1, doc1, mods2, doc2) ==
    \A side \in Sides : \A m, chid, c :
        c \in Value => (At(mods1, doc1, side, m, chid, c) <=> At(mods2, doc2, side, m, chid, c))

LEMMA SameAtShown ==
    ASSUME NEW mods1, NEW doc1, NEW mods2, NEW doc2, NEW L,
           SameAt(mods1, doc1, mods2, doc2), Shown(mods1, doc1, L)
    PROVE  Shown(mods2, doc2, L)
<1>1. \A l, c : c \in Value => (Joins(mods1, doc1, l, c) <=> Joins(mods2, doc2, l, c))
  <2>1. "senders" \in Sides /\ "receivers" \in Sides BY DEF Sides
  <2> QED BY <2>1, Zenon DEF SameAt, Joins
<1>2. \A l \in L : \E c \in Value : Joins(mods2, doc2, l, c) BY <1>1, Zenon DEF Shown
<1>3. \A l \in AnyLink, c \in Value : Joins(mods2, doc2, l, c) =>
          l \in L \/ (c.transport = "ipc" /\ \E o \in L : Joins(mods2, doc2, o, c))
  <2> SUFFICES ASSUME NEW l \in AnyLink, NEW c \in Value, Joins(mods2, doc2, l, c), l \notin L
               PROVE  c.transport = "ipc" /\ \E o \in L : Joins(mods2, doc2, o, c)
    OBVIOUS
  <2>1. Joins(mods1, doc1, l, c) BY <1>1
  <2>2. c.transport = "ipc" /\ \E o \in L : Joins(mods1, doc1, o, c) BY <2>1 DEF Shown
  <2> QED BY <1>1, <2>2
<1> QED BY <1>2, <1>3 DEF Shown

LEMMA MergedAt ==
    ASSUME NEW mods \in Seq(ModuleSet), NEW doc \in Document, NEW full \in Document,
           Merged(mods, doc, full)
    PROVE  SameAt(mods, doc, mods, full) /\ Ports(full) \subseteq Ports(doc)
<1>0. /\ DOMAIN doc = 1..Len(doc) /\ DOMAIN full = 1..Len(full)
      /\ Len(doc) \in Nat /\ Len(full) \in Nat
  BY DocumentIs
<1>1. \A i \in 1..Len(full), side \in Sides : DOMAIN full[i][side] = 1..Len(full[i][side])
  BY SidesOf
<1>2. \A i \in 1..Len(doc), side \in Sides : DOMAIN doc[i][side] = 1..Len(doc[i][side])
  BY SidesOf
<1>3. \A i \in 1..Len(doc) : full[i].name = doc[i].name BY DEF Merged
<1>4. \A c \in Value : c # Blank BY DEF Value
<1>5. ASSUME NEW side \in Sides, NEW m, NEW chid, NEW c \in Value
      PROVE  At(mods, doc, side, m, chid, c) <=> At(mods, full, side, m, chid, c)
  <2>1. PICK k : k = chid + 1 OBVIOUS
  <2>2. ASSUME At(mods, doc, side, m, chid, c) PROVE At(mods, full, side, m, chid, c)
    <3>1. PICK i \in 1..Len(doc) : /\ doc[i].name = mods[m].name /\ k \in 1..Len(doc[i][side])
                                   /\ doc[i][side][k] = c
      BY <1>0, <1>2, <2>1, <2>2 DEF At
    <3>2. i \in 1..Len(full) /\ k \in 1..Len(full[i][side]) /\ full[i][side][k] = c
      BY <3>1, MergedValues
    <3> QED BY <1>0, <1>1, <1>3, <2>1, <2>2, <3>1, <3>2 DEF At
  <2>3. ASSUME At(mods, full, side, m, chid, c) PROVE At(mods, doc, side, m, chid, c)
    <3>1. PICK i \in 1..Len(full) : /\ full[i].name = mods[m].name /\ k \in 1..Len(full[i][side])
                                    /\ full[i][side][k] = c
      BY <1>0, <1>1, <2>1, <2>3 DEF At
    <3>2. i \in 1..Len(doc) /\ k \in 1..Len(doc[i][side]) /\ doc[i][side][k] = c
      BY <1>4, <3>1, MergedValues
    <3> QED BY <1>0, <1>2, <1>3, <2>1, <2>3, <3>1, <3>2 DEF At
  <2> QED BY <2>2, <2>3
<1>6. ASSUME NEW p, PortAt(full, p) PROVE PortAt(doc, p)
  <2>1. PICK i \in 1..Len(full), side \in Sides : \E k \in 1..Len(full[i][side]) :
           full[i][side][k].transport = "tcp" /\ full[i][side][k].key = p
    BY <1>6 DEF PortAt
  <2>2. PICK k \in 1..Len(full[i][side]) :
           full[i][side][k].transport = "tcp" /\ full[i][side][k].key = p
    BY <2>1
  <2>3. full[i][side][k] # Blank BY <2>2 DEF Blank
  <2>4. i \in 1..Len(doc) /\ k \in 1..Len(doc[i][side]) /\ doc[i][side][k] = full[i][side][k]
    BY <2>3, MergedValues
  <2> QED BY <2>2, <2>4 DEF PortAt
<1> QED BY <1>5, <1>6, PortsAre DEF SameAt

(* Modules that are added have names that no component has. *)
LEMMA GrowthAt ==
    ASSUME NEW mods \in Seq(ModuleSet), NEW more \in Seq(ModuleSet), NEW doc \in Document,
           Len(mods) =< Len(more), \A m \in 1..Len(mods) : more[m].name = mods[m].name,
           DistinctNames(more), OnCanvas(mods, doc)
    PROVE  SameAt(mods, doc, more, doc)
<1>0. /\ DOMAIN mods = 1..Len(mods) /\ DOMAIN more = 1..Len(more)
      /\ \A m \in 1..Len(mods) : m \in 1..Len(more)
  <2>1. Len(mods) \in Nat /\ Len(more) \in Nat OBVIOUS
  <2> QED BY <2>1
<1>1. ASSUME NEW i \in DOMAIN doc, NEW m \in 1..Len(more), doc[i].name = more[m].name
      PROVE  m \in 1..Len(mods)
  <2>1. PICK n \in 1..Len(mods) : doc[i].name = mods[n].name BY <1>0 DEF OnCanvas
  <2>2. more[n].name = more[m].name BY <1>1, <2>1
  <2>3. n = m BY <1>0, <2>2 DEF DistinctNames
  <2> QED BY <2>3
<1>2. ASSUME NEW side \in Sides, NEW m, NEW chid, NEW c \in Value
      PROVE  At(mods, doc, side, m, chid, c) <=> At(more, doc, side, m, chid, c)
  BY <1>0, <1>1 DEF At
<1> QED BY <1>2 DEF SameAt

-----------------------------------------------------------------------------
(* Documents that differ in values only. *)
SameShape(doc, new) ==
    /\ Len(new) = Len(doc)
    /\ \A i \in 1..Len(doc) : /\ new[i].name = doc[i].name /\ new[i].port = doc[i].port
                              /\ \A side \in Sides : Len(new[i][side]) = Len(doc[i][side])

LEMMA ShapeProps ==
    ASSUME NEW mods, NEW doc \in Document, NEW new \in Document, SameShape(doc, new)
    PROVE  /\ DistinctNames(new) <=> DistinctNames(doc)
           /\ PortsDiffer(new) <=> PortsDiffer(doc)
           /\ Covers(mods, doc) => Covers(mods, new)
           /\ OnCanvas(mods, doc) => OnCanvas(mods, new)
<1>0. DOMAIN doc = 1..Len(doc) /\ DOMAIN new = 1..Len(doc)
  <2>1. doc \in Seq(ComponentSet) /\ new \in Seq(ComponentSet) BY DocumentIs
  <2>2. Len(new) = Len(doc) BY DEF SameShape
  <2> QED BY <2>1, <2>2
<1>1. \A i \in 1..Len(doc) : new[i].name = doc[i].name /\ new[i].port = doc[i].port BY DEF SameShape
<1>2. \A i \in 1..Len(doc) : /\ Len(new[i].senders) = Len(doc[i].senders)
                             /\ Len(new[i].receivers) = Len(doc[i].receivers)
  BY DEF SameShape, Sides
<1>3. DistinctNames(new) <=> DistinctNames(doc) BY <1>0, <1>1 DEF DistinctNames
<1>4. PortsDiffer(new) <=> PortsDiffer(doc) BY <1>0, <1>1 DEF PortsDiffer
<1>5. Covers(mods, doc) => Covers(mods, new) BY <1>0, <1>1, <1>2, Zenon DEF Covers
<1>6. OnCanvas(mods, doc) => OnCanvas(mods, new) BY <1>0, <1>1, Zenon DEF OnCanvas
<1> QED BY <1>3, <1>4, <1>5, <1>6

(* new is doc with v at one chid of the sender, and one of the receiver. *)
Filled(doc, new, sendName, recName, ioSend, ioReceive, v) ==
    \A i \in 1..Len(doc) :
        /\ \A k \in 1..Len(doc[i]["senders"]) : new[i]["senders"][k] =
              IF doc[i].name = sendName /\ k = ioSend + 1 THEN v ELSE doc[i]["senders"][k]
        /\ \A k \in 1..Len(doc[i]["receivers"]) : new[i]["receivers"][k] =
              IF doc[i].name = recName /\ k = ioReceive + 1 THEN v ELSE doc[i]["receivers"][k]

LEMMA FillProps ==
    ASSUME NEW doc \in Document, NEW r, form.value \in Value
    PROVE  /\ Fill(doc, r) \in Document /\ SameShape(doc, Fill(doc, r))
           /\ Filled(doc, Fill(doc, r), moduleArray[r.mSend].name, moduleArray[r.mRec].name,
                     TEMPORARYINFO.ioSend, TEMPORARYINFO.ioReceive, form.value)
<1>0. PICK v \in Conn : v = form.value BY DEF Value
<1>1. PICK a : a = moduleArray[r.mSend].name OBVIOUS
<1>2. PICK b : b = moduleArray[r.mRec].name OBVIOUS
<1>3. PICK x : x = TEMPORARYINFO.ioSend OBVIOUS
<1>4. PICK y : y = TEMPORARYINFO.ioReceive OBVIOUS
<1>5. PICK new : new = Fill(doc, r) OBVIOUS
<1>6. doc \in Seq(ComponentSet) /\ DOMAIN doc = 1..Len(doc) /\ Len(doc) \in Nat
      /\ \A i \in 1..Len(doc) : doc[i] \in ComponentSet
  BY DocumentIs
<1>7. ASSUME NEW s \in Seq(Conn), NEW chid
      PROVE  /\ [k \in DOMAIN s |-> IF k = chid + 1 THEN v ELSE s[k]] \in Seq(Conn)
             /\ Len([k \in DOMAIN s |-> IF k = chid + 1 THEN v ELSE s[k]]) = Len(s)
  <2>1. PICK n : n = chid + 1 OBVIOUS
  <2>2. [k \in 1..Len(s) |-> IF k = n THEN v ELSE s[k]] \in Seq(Conn)
        /\ Len([k \in 1..Len(s) |-> IF k = n THEN v ELSE s[k]]) = Len(s)
    OBVIOUS
  <2>3. DOMAIN s = 1..Len(s) OBVIOUS
  <2> QED BY <2>1, <2>2, <2>3
<1>8. new = [i \in DOMAIN doc |->
               [doc[i] EXCEPT
                  !.receivers = IF doc[i].name = b
                                THEN [k \in DOMAIN @ |-> IF k = y + 1 THEN v ELSE @[k]] ELSE @,
                  !.senders = IF doc[i].name = a
                              THEN [k \in DOMAIN @ |-> IF k = x + 1 THEN v ELSE @[k]] ELSE @]]
  BY <1>0, <1>1, <1>2, <1>3, <1>4, <1>5 DEF Fill
<1>9. ASSUME NEW i \in 1..Len(doc)
      PROVE  /\ new[i] \in ComponentSet /\ new[i].name = doc[i].name /\ new[i].port = doc[i].port
             /\ Len(new[i].senders) = Len(doc[i].senders)
             /\ Len(new[i].receivers) = Len(doc[i].receivers)
             /\ \A k \in 1..Len(doc[i].senders) : new[i].senders[k] =
                   IF doc[i].name = a /\ k = x + 1 THEN v ELSE doc[i].senders[k]
             /\ \A k \in 1..Len(doc[i].receivers) : new[i].receivers[k] =
                   IF doc[i].name = b /\ k = y + 1 THEN v ELSE doc[i].receivers[k]
  <2>1. PICK c \in ComponentSet : c = doc[i] BY <1>6
  <2>2. PICK s \in Seq(Conn) : s = c.senders BY DEF ComponentSet
  <2>3. PICK t \in Seq(Conn) : t = c.receivers BY DEF ComponentSet
  <2>4. PICK s2 : s2 = IF c.name = a THEN [k \in DOMAIN s |-> IF k = x + 1 THEN v ELSE s[k]] ELSE s
    OBVIOUS
  <2>5. PICK t2 : t2 = IF c.name = b THEN [k \in DOMAIN t |-> IF k = y + 1 THEN v ELSE t[k]] ELSE t
    OBVIOUS
  <2>6. new[i] = [c EXCEPT !.receivers = t2, !.senders = s2]
    BY <1>6, <1>8, <2>1, <2>2, <2>3, <2>4, <2>5
  <2>7. s2 \in Seq(Conn) /\ Len(s2) = Len(s) BY <1>7, <2>4
  <2>8. t2 \in Seq(Conn) /\ Len(t2) = Len(t) BY <1>7, <2>5
  <2>9. \A k \in 1..Len(s) : s2[k] = IF c.name = a /\ k = x + 1 THEN v ELSE s[k]
    <3>1. DOMAIN s = 1..Len(s) OBVIOUS
    <3> QED BY <2>4, <3>1
  <2>10. \A k \in 1..Len(t) : t2[k] = IF c.name = b /\ k = y + 1 THEN v ELSE t[k]
    <3>1. DOMAIN t = 1..Len(t) OBVIOUS
    <3> QED BY <2>5, <3>1
  <2>11. /\ new[i] \in ComponentSet /\ new[i].name = c.name /\ new[i].port = c.port
         /\ new[i].senders = s2 /\ new[i].receivers = t2
    BY <2>6, <2>7, <2>8 DEF ComponentSet
  <2> QED BY <2>1, <2>2, <2>3, <2>7, <2>8, <2>9, <2>10, <2>11
<1>10. new \in Seq(ComponentSet) /\ Len(new) = Len(doc)
  <2>1. new = [i \in 1..Len(doc) |-> new[i]] BY <1>6, <1>8
  <2>2. \A i \in 1..Len(doc) : new[i] \in ComponentSet BY <1>9
  <2> QED BY <1>6, <2>1, <2>2
<1>11. SameShape(doc, new) BY <1>9, <1>10 DEF SameShape, Sides
<1>12. Filled(doc, new, a, b, x, y, v) BY <1>9 DEF Filled
<1> QED BY <1>0, <1>1, <1>2, <1>3, <1>4, <1>5, <1>10, <1>11, <1>12, DocumentIs

(* Where the values of one side are after the form's has been stored. *)
FilledSide(doc, new, side, name, chid, v) ==
    \A i \in 1..Len(doc) : \A k \in 1..Len(doc[i][side]) : new[i][side][k] =
        IF doc[i].name = name /\ k = chid + 1 THEN v ELSE doc[i][side][k]

LEMMA FilledSideAt ==
    ASSUME NEW mods \in Seq(ModuleSet), NEW doc \in Document, NEW new \in Document,
           DistinctNames(mods), SameShape(doc, new), NEW side \in Sides,
           NEW a \in 1..Len(mods), NEW x \in Nat, NEW v,
           FilledSide(doc, new, side, mods[a].name, x, v),
           \E i \in 1..Len(doc) : doc[i].name = mods[a].name /\ x + 1 \in 1..Len(doc[i][side])
    PROVE  \A m, c : \A chid \in Nat :
              At(mods, new, side, m, chid, c) <=>
                 IF m = a /\ chid = x THEN c = v ELSE At(mods, doc, side, m, chid, c)
<1>0. DOMAIN doc = 1..Len(doc) /\ DOMAIN new = 1..Len(doc) /\ Len(new) = Len(doc)
      /\ DOMAIN mods = 1..Len(mods)
  <2>1. doc \in Seq(ComponentSet) /\ new \in Seq(ComponentSet) BY DocumentIs
  <2>2. Len(new) = Len(doc) BY DEF SameShape
  <2> QED BY <2>1, <2>2
<1>1. \A i \in 1..Len(doc) : /\ new[i].name = doc[i].name
                             /\ DOMAIN doc[i][side] = 1..Len(doc[i][side])
                             /\ DOMAIN new[i][side] = 1..Len(doc[i][side])
  <2>1. \A i \in 1..Len(doc) : new[i].name = doc[i].name /\ Len(new[i][side]) = Len(doc[i][side])
    BY DEF SameShape
  <2>2. \A i \in 1..Len(doc) : DOMAIN doc[i][side] = 1..Len(doc[i][side]) BY SidesOf
  <2>3. \A i \in 1..Len(new) : DOMAIN new[i][side] = 1..Len(new[i][side]) BY SidesOf
  <2> QED BY <1>0, <2>1, <2>2, <2>3
<1>2. \A i \in 1..Len(doc) : \A k \in 1..Len(doc[i][side]) : new[i][side][k] =
         IF doc[i].name = mods[a].name /\ k = x + 1 THEN v ELSE doc[i][side][k]
  BY DEF FilledSide
<1> SUFFICES ASSUME NEW m, NEW c, NEW chid \in Nat
             PROVE  At(mods, new, side, m, chid, c) <=>
                       IF m = a /\ chid = x THEN c = v ELSE At(mods, doc, side, m, chid, c)
  OBVIOUS
<1>3. PICK k \in Nat : k = chid + 1
  <2>1. chid + 1 \in Nat OBVIOUS
  <2> QED BY <2>1
<1>4. k = x + 1 <=> chid = x BY <1>3
<1>5. \A d \in {doc, new} : At(mods, d, side, m, chid, c) <=>
         /\ m \in 1..Len(mods)
         /\ \E i \in 1..Len(doc) : /\ doc[i].name = mods[m].name
                                  /\ k \in 1..Len(doc[i][side]) /\ d[i][side][k] = c
  BY <1>0, <1>1, <1>3, Zenon DEF At
<1>6. CASE m = a /\ chid = x
  <2>1. \A i \in 1..Len(doc) : doc[i].name = mods[m].name /\ k \in 1..Len(doc[i][side])
           => new[i][side][k] = v
    BY <1>2, <1>4, <1>6
  <2>2. PICK i \in 1..Len(doc) : doc[i].name = mods[m].name /\ k \in 1..Len(doc[i][side])
    BY <1>4, <1>6
  <2> QED BY <1>5, <1>6, <2>1, <2>2
<1>7. CASE ~(m = a /\ chid = x)
  <2>1. \A i \in 1..Len(doc) : m \in 1..Len(mods) /\ doc[i].name = mods[m].name
              /\ k \in 1..Len(doc[i][side]) => new[i][side][k] = doc[i][side][k]
    BY <1>0, <1>2, <1>4, <1>7 DEF DistinctNames
  <2> QED BY <1>5, <1>7, <2>1
<1> QED BY <1>6, <1>7

(* The same for both sides. *)
ValuesMoved(mods, doc, new, a, b, x, y, v) ==
    \A m, c : \A chid \in Nat :
        /\ At(mods, new, "senders", m, chid, c) <=>
              IF m = a /\ chid = x THEN c = v ELSE At(mods, doc, "senders", m, chid, c)
        /\ At(mods, new, "receivers", m, chid, c) <=>
              IF m = b /\ chid = y THEN c = v ELSE At(mods, doc, "receivers", m, chid, c)

LEMMA FilledAt ==
    ASSUME NEW mods \in Seq(ModuleSet), NEW doc \in Document, NEW new \in Document,
           DistinctNames(mods), Covers(mods, doc), SameShape(doc, new),
           NEW a \in 1..Len(mods), NEW b \in 1..Len(mods), NEW x \in Nat, NEW y \in Nat,
           x < mods[a].nSend, y < mods[b].nReceive, NEW v,
           Filled(doc, new, mods[a].name, mods[b].name, x, y, v)
    PROVE  ValuesMoved(mods, doc, new, a, b, x, y, v)
<1>0. DOMAIN doc = 1..Len(doc) /\ DOMAIN mods = 1..Len(mods)
  BY DocumentIs
<1>1. PICK i \in 1..Len(doc) : /\ doc[i].name = mods[a].name
                               /\ Len(doc[i].senders) >= mods[a].nSend
  BY <1>0 DEF Covers
<1>2. PICK j \in 1..Len(doc) : /\ doc[j].name = mods[b].name
                               /\ Len(doc[j].receivers) >= mods[b].nReceive
  BY <1>0 DEF Covers
<1>3. mods[a].nSend \in Nat /\ mods[b].nReceive \in Nat
  <2>1. mods[a] \in ModuleSet /\ mods[b] \in ModuleSet OBVIOUS
  <2> QED BY <2>1 DEF ModuleSet
<1>4. "senders" \in Sides /\ "receivers" \in Sides BY DEF Sides
<1>5. Len(doc[i]["senders"]) \in Nat /\ Len(doc[j]["receivers"]) \in Nat
  <2>1. doc[i]["senders"] \in Seq(Conn) /\ doc[j]["receivers"] \in Seq(Conn) BY <1>4, SidesOf
  <2> QED BY <2>1
<1>6. x + 1 \in 1..Len(doc[i]["senders"]) BY <1>1, <1>3, <1>5
<1>7. y + 1 \in 1..Len(doc[j]["receivers"]) BY <1>2, <1>3, <1>5
<1>8. FilledSide(doc, new, "senders", mods[a].name, x, v) BY DEF Filled, FilledSide
<1>9. FilledSide(doc, new, "receivers", mods[b].name, y, v) BY DEF Filled, FilledSide
<1>10. \E n \in 1..Len(doc) : doc[n].name = mods[a].name /\ x + 1 \in 1..Len(doc[n]["senders"])
  BY <1>1, <1>6
<1>11. \E n \in 1..Len(doc) : doc[n].name = mods[b].name /\ y + 1 \in 1..Len(doc[n]["receivers"])
  BY <1>2, <1>7
<1>12. \A m, c : \A chid \in Nat : At(mods, new, "senders", m, chid, c) <=>
         IF m = a /\ chid = x THEN c = v ELSE At(mods, doc, "senders", m, chid, c)
  BY <1>4, <1>8, <1>10, FilledSideAt
<1>13. \A m, c : \A chid \in Nat : At(mods, new, "receivers", m, chid, c) <=>
         IF m = b /\ chid = y THEN c = v ELSE At(mods, doc, "receivers", m, chid, c)
  BY <1>4, <1>9, <1>11, FilledSideAt
<1> QED BY <1>12, <1>13, Zenon DEF ValuesMoved

(* A value at a connector that is a port is a port of the document. *)
LEMMA AtPort ==
    ASSUME NEW mods, NEW doc \in Document, NEW side \in Sides, NEW m, NEW chid, NEW c,
           At(mods, doc, side, m, chid, c), c.transport = "tcp"
    PROVE  c.key \in Ports(doc)
<1>1. DOMAIN doc = 1..Len(doc) BY DocumentIs
<1>2. PICK i \in 1..Len(doc) : chid + 1 \in DOMAIN doc[i][side] /\ doc[i][side][chid + 1] = c
  BY <1>1 DEF At
<1>3. chid + 1 \in 1..Len(doc[i][side]) BY <1>2, SidesOf
<1>4. PortAt(doc, c.key) BY <1>2, <1>3 DEF PortAt
<1> QED BY <1>4, PortsAre

(* Storing a value that is not a port in use makes the new link a drawn one. *)
LEMMA FilledShown ==
    ASSUME NEW mods \in Seq(ModuleSet), NEW doc \in Document, NEW new \in Document,
           DistinctNames(mods), Covers(mods, doc), SameShape(doc, new),
           NEW l \in AnyLink, l.mSend \in 1..Len(mods), l.mReceive \in 1..Len(mods),
           l.ioSend < mods[l.mSend].nSend, l.ioReceive < mods[l.mReceive].nReceive,
           NEW v \in Value,
           Filled(doc, new, mods[l.mSend].name, mods[l.mReceive].name, l.ioSend, l.ioReceive, v),
           NEW L \in SUBSET AnyLink, Free(l, L), Shown(mods, doc, L),
           v.transport = "tcp" => v.key \notin Ports(doc)
    PROVE  Shown(mods, new, L \cup {l})
<1>0. l.ioSend \in Nat /\ l.ioReceive \in Nat /\ \A o \in AnyLink : o.ioSend \in Nat /\ o.ioReceive \in Nat
  BY DEF AnyLink
<1>1. \A m, c : \A chid \in Nat :
         /\ At(mods, new, "senders", m, chid, c) <=>
               IF m = l.mSend /\ chid = l.ioSend THEN c = v ELSE At(mods, doc, "senders", m, chid, c)
         /\ At(mods, new, "receivers", m, chid, c) <=>
               IF m = l.mReceive /\ chid = l.ioReceive THEN c = v
               ELSE At(mods, doc, "receivers", m, chid, c)
  <2>1. PICK a \in 1..Len(mods) : a = l.mSend OBVIOUS
  <2>2. PICK b \in 1..Len(mods) : b = l.mReceive OBVIOUS
  <2>3. PICK x \in Nat : x = l.ioSend BY <1>0
  <2>4. PICK y \in Nat : y = l.ioReceive BY <1>0
  <2>5. /\ x < mods[a].nSend /\ y < mods[b].nReceive
        /\ Filled(doc, new, mods[a].name, mods[b].name, x, y, v)
    BY <2>1, <2>2, <2>3, <2>4
  <2>6. ValuesMoved(mods, doc, new, a, b, x, y, v)
    <3> HIDE <2>1, <2>2, <2>3, <2>4
    <3> QED BY <2>5, FilledAt
  <2>7. ValuesMoved(mods, doc, new, l.mSend, l.mReceive, l.ioSend, l.ioReceive, v)
    BY <2>1, <2>2, <2>3, <2>4, <2>6
  <2> QED BY <2>7, Zenon DEF ValuesMoved
<1>2. \A o \in AnyLink : \A c :
         Joins(mods, new, o, c) <=>
            /\ IF SameSender(o, l) THEN c = v ELSE At(mods, doc, "senders", o.mSend, o.ioSend, c)
            /\ IF SameReceiver(o, l) THEN c = v
               ELSE At(mods, doc, "receivers", o.mReceive, o.ioReceive, c)
  BY <1>0, <1>1 DEF Joins, SameSender, SameReceiver
<1>3. \A o \in L : \A c : Joins(mods, new, o, c) <=> Joins(mods, doc, o, c)
  <2>1. \A o \in L : o \in AnyLink /\ ~SameSender(o, l) /\ ~SameReceiver(o, l) BY DEF Free
  <2> QED BY <1>2, <2>1 DEF Joins
<1>4. Joins(mods, new, l, v) BY <1>2 DEF SameSender, SameReceiver
<1>5. \A o \in L \cup {l} : \E c \in Value : Joins(mods, new, o, c)
  BY <1>3, <1>4 DEF Shown
<1>6. ASSUME NEW o \in AnyLink, NEW c \in Value, Joins(mods, new, o, c)
      PROVE  \/ o \in L \cup {l}
             \/ c.transport = "ipc" /\ \E q \in L \cup {l} : Joins(mods, new, q, c)
  <2>0. "senders" \in Sides /\ "receivers" \in Sides BY DEF Sides
  <2>1. v.transport \in {"tcp", "ipc"} BY DEF Value, Conn
  <2>2. CASE SameSender(o, l) /\ SameReceiver(o, l)
    <3>1. o = l BY <2>2 DEF SameSender, SameReceiver, AnyLink
    <3> QED BY <3>1
  <2>3. CASE SameSender(o, l) /\ ~SameReceiver(o, l)
    <3>1. c = v /\ At(mods, doc, "receivers", o.mReceive, o.ioReceive, v) BY <1>2, <1>6, <2>3
    <3>2. v.transport # "tcp" BY <2>0, <3>1, AtPort
    <3> QED BY <1>4, <2>1, <3>1, <3>2
  <2>4. CASE ~SameSender(o, l) /\ SameReceiver(o, l)
    <3>1. c = v /\ At(mods, doc, "senders", o.mSend, o.ioSend, v) BY <1>2, <1>6, <2>4
    <3>2. v.transport # "tcp" BY <2>0, <3>1, AtPort
    <3> QED BY <1>4, <2>1, <3>1, <3>2
  <2>5. CASE ~SameSender(o, l) /\ ~SameReceiver(o, l)
    <3>1. Joins(mods, doc, o, c) BY <1>2, <1>6, <2>5 DEF Joins
    <3>2. o \in L \/ (c.transport = "ipc" /\ \E q \in L : Joins(mods, doc, q, c))
      BY <3>1 DEF Shown
    <3> QED BY <1>3, <3>2
  <2> QED BY <2>2, <2>3, <2>4, <2>5
<1> QED BY <1>5, <1>6 DEF Shown

LEMMA FilledPorts ==
    ASSUME NEW doc \in Document, NEW new \in Document, SameShape(doc, new), NEW a, NEW b, NEW x, NEW y,
           NEW v, Filled(doc, new, a, b, x, y, v), NEW p \in Ports(new)
    PROVE  p \in Ports(doc) \/ (v.transport = "tcp" /\ v.key = p)
<1>1. PortAt(new, p) BY PortsAre
<1>2. PICK i \in 1..Len(new), side \in Sides : \E k \in 1..Len(new[i][side]) :
         new[i][side][k].transport = "tcp" /\ new[i][side][k].key = p
  BY <1>1 DEF PortAt
<1>3. PICK k \in 1..Len(new[i][side]) :
         new[i][side][k].transport = "tcp" /\ new[i][side][k].key = p
  BY <1>2
<1>4. i \in 1..Len(doc) /\ k \in 1..Len(doc[i][side]) BY DEF SameShape
<1>5. new[i][side][k] = v \/ new[i][side][k] = doc[i][side][k]
  BY <1>4 DEF Filled, Sides
<1>6. new[i][side][k] = doc[i][side][k] => PortAt(doc, p) BY <1>3, <1>4 DEF PortAt
<1> QED BY <1>3, <1>5, <1>6, PortsAre

-----------------------------------------------------------------------------
(* The positions that the copy works on. *)
LEMMA HitsProps ==
    ASSUME NEW doc \in Document, NEW r
    PROVE  Hits(doc, r).rec \in 0..Len(doc) /\ Hits(doc, r).send \in 0..Len(doc)
<1>0. DOMAIN doc = 1..Len(doc) /\ Len(doc) \in Nat BY DocumentIs
<1>1. PICK S : S = {"rec", "send"} \X (1..Len(doc)) OBVIOUS
<1>2. PICK hits : hits = [i \in DOMAIN doc |->
         (IF doc[i].name = moduleArray[r.mRec].name THEN <<<<"rec", i>>>> ELSE <<>>)
         \o (IF doc[i].name = moduleArray[r.mSend].name THEN <<<<"send", i>>>> ELSE <<>>)]
  OBVIOUS
<1>3. PICK all : all = Flatten(hits) OBVIOUS
<1>4. PICK two : two = {all[k] : k \in DOMAIN all \cap {1, 2}} OBVIOUS
<1>5. Hits(doc, r) = [rec |-> MaxOr({h[2] : h \in {x \in two : x[1] = "rec"}}, 0),
                      send |-> MaxOr({h[2] : h \in {x \in two : x[1] = "send"}}, 0)]
  BY <1>2, <1>3, <1>4 DEF Hits
<1>6. ASSUME NEW i \in 1..Len(doc) PROVE hits[i] \in Seq(S)
  <2>1. <<"rec", i>> \in S /\ <<"send", i>> \in S BY <1>1
  <2>2. PICK a : a = IF doc[i].name = moduleArray[r.mRec].name THEN <<<<"rec", i>>>> ELSE <<>>
    OBVIOUS
  <2>3. PICK b : b = IF doc[i].name = moduleArray[r.mSend].name THEN <<<<"send", i>>>> ELSE <<>>
    OBVIOUS
  <2>4. a \in Seq(S)
    <3>1. \A e \in S : <<e>> \in Seq(S) OBVIOUS
    <3>2. <<>> \in Seq(S) OBVIOUS
    <3> QED BY <2>1, <2>2, <3>1, <3>2
  <2>5. b \in Seq(S)
    <3>1. \A e \in S : <<e>> \in Seq(S) OBVIOUS
    <3>2. <<>> \in Seq(S) OBVIOUS
    <3> QED BY <2>1, <2>3, <3>1, <3>2
  <2>6. hits[i] = a \o b BY <1>0, <1>2, <2>2, <2>3
  <2>7. a \o b \in Seq(S) BY <2>4, <2>5
  <2> QED BY <2>6, <2>7
<1>7. hits \in Seq(Seq(S)) /\ Len(hits) = Len(doc)
  <2>1. hits = [i \in 1..Len(doc) |-> hits[i]] BY <1>0, <1>2
  <2> QED BY <1>0, <1>6, <2>1
<1>8. all \in Seq(S) BY <1>3, <1>7, FlatElements
<1>9. \A h \in two : h \in S BY <1>4, <1>8
<1>10. \A h \in two : h[2] \in 1..Len(doc) BY <1>1, <1>9
<1>11. PICK f : f = [i \in 1..Len(doc) |-> i] OBVIOUS
<1>12. ASSUME NEW U \in SUBSET (1..Len(doc)) PROVE MaxOr(U, 0) \in 0..Len(doc)
  <2>1. \A i \in 1..Len(doc) : f[i] = i BY <1>11
  <2>2. {f[i] : i \in 1..Len(doc)} = 1..Len(doc) BY <2>1
  <2>3. Among(U, f, Len(doc)) BY <1>0, <2>1, <2>2 DEF Among
  <2>4. IsMax(MaxOr(U, 0), U, 0) BY <2>3, Greatest
  <2>5. MaxOr(U, 0) \in U \cup {0} BY <2>4 DEF IsMax
  <2>6. \A x \in U \cup {0} : x \in 0..Len(doc) BY <1>0
  <2> QED BY <2>5, <2>6, Zenon
<1>13. {h[2] : h \in {x \in two : x[1] = "rec"}} \in SUBSET (1..Len(doc)) BY <1>10
<1>14. {h[2] : h \in {x \in two : x[1] = "send"}} \in SUBSET (1..Len(doc)) BY <1>10
<1> QED BY <1>5, <1>12, <1>13, <1>14

LEMMA CopyProps ==
    ASSUME NEW doc \in Document, NEW pos, pos.rec \in 1..Len(doc), pos.send \in 1..Len(doc),
           NEW k \in 1..Len(doc[pos.send].senders), NEW l \in 1..Len(doc[pos.rec].receivers)
    PROVE  /\ copyFromReceiver(doc, pos, k, l) \in Document
           /\ SameShape(doc, copyFromReceiver(doc, pos, k, l))
           /\ copyFromSender(doc, pos, k, l) \in Document
           /\ SameShape(doc, copyFromSender(doc, pos, k, l))
<1>0. doc \in Seq(ComponentSet) /\ DOMAIN doc = 1..Len(doc) /\ Len(doc) \in Nat
      /\ \A i \in 1..Len(doc) : doc[i] \in ComponentSet
  BY DocumentIs
<1>1. ASSUME NEW s \in Seq(Conn), NEW n, NEW c \in Conn
      PROVE  [s EXCEPT ![n] = c] \in Seq(Conn) /\ Len([s EXCEPT ![n] = c]) = Len(s)
  <2>1. DOMAIN s = 1..Len(s) /\ Len(s) \in Nat OBVIOUS
  <2>2. PICK t : t = [i \in 1..Len(s) |-> IF i = n THEN c ELSE s[i]] OBVIOUS
  <2>3. [s EXCEPT ![n] = c] = t BY <2>1, <2>2
  <2>4. t \in Seq(Conn) /\ Len(t) = Len(s) BY <2>1, <2>2
  <2> QED BY <2>3, <2>4
<1>2. SameShape(doc, doc) BY DEF SameShape
<1>3. \A i \in 1..Len(doc) : doc[i].senders \in Seq(Conn) /\ doc[i].receivers \in Seq(Conn)
  BY <1>0 DEF ComponentSet
<1>4. ASSUME NEW i \in 1..Len(doc), NEW e \in ComponentSet,
             e.name = doc[i].name, e.port = doc[i].port,
             Len(e.senders) = Len(doc[i].senders), Len(e.receivers) = Len(doc[i].receivers)
      PROVE  [doc EXCEPT ![i] = e] \in Document /\ SameShape(doc, [doc EXCEPT ![i] = e])
  <2>1. PICK new : new = [doc EXCEPT ![i] = e] OBVIOUS
  <2>2. new \in Seq(ComponentSet) /\ Len(new) = Len(doc) BY <1>0, <2>1
  <2>3. \A j \in 1..Len(doc) : new[j] = IF j = i THEN e ELSE doc[j] BY <1>0, <2>1
  <2>4. SameShape(doc, new) BY <1>4, <2>2, <2>3 DEF SameShape, Sides
  <2> QED BY <2>1, <2>2, <2>4, DocumentIs
<1>5. ASSUME NEW c \in Conn
      PROVE  /\ [doc EXCEPT ![pos.send].senders[k] = c] \in Document
             /\ SameShape(doc, [doc EXCEPT ![pos.send].senders[k] = c])
  <2>1. PICK i \in 1..Len(doc) : i = pos.send OBVIOUS
  <2>2. PICK s \in Seq(Conn) : s = doc[i].senders BY <1>3
  <2>3. PICK t : t = [s EXCEPT ![k] = c] OBVIOUS
  <2>4. t \in Seq(Conn) /\ Len(t) = Len(s) BY <1>1, <2>3
  <2>5. PICK d \in ComponentSet : d = doc[i] BY <1>0
  <2>6. PICK e : e = [d EXCEPT !.senders = t] OBVIOUS
  <2>7. e \in ComponentSet /\ e.name = d.name /\ e.port = d.port /\ e.senders = t /\ e.receivers = d.receivers
    BY <2>4, <2>6 DEF ComponentSet
  <2>8. [doc EXCEPT ![pos.send].senders[k] = c] = [doc EXCEPT ![i] = e]
    BY <2>1, <2>2, <2>3, <2>5, <2>6
  <2> QED BY <1>4, <2>2, <2>4, <2>5, <2>7, <2>8
<1>6. ASSUME NEW c \in Conn
      PROVE  /\ [doc EXCEPT ![pos.rec].receivers[l] = c] \in Document
             /\ SameShape(doc, [doc EXCEPT ![pos.rec].receivers[l] = c])
  <2>1. PICK i \in 1..Len(doc) : i = pos.rec OBVIOUS
  <2>2. PICK s \in Seq(Conn) : s = doc[i].receivers BY <1>3
  <2>3. PICK t : t = [s EXCEPT ![l] = c] OBVIOUS
  <2>4. t \in Seq(Conn) /\ Len(t) = Len(s) BY <1>1, <2>3
  <2>5. PICK d \in ComponentSet : d = doc[i] BY <1>0
  <2>6. PICK e : e = [d EXCEPT !.receivers = t] OBVIOUS
  <2>7. e \in ComponentSet /\ e.name = d.name /\ e.port = d.port /\ e.receivers = t /\ e.senders = d.senders
    BY <2>4, <2>6 DEF ComponentSet
  <2>8. [doc EXCEPT ![pos.rec].receivers[l] = c] = [doc EXCEPT ![i] = e]
    BY <2>1, <2>2, <2>3, <2>5, <2>6
  <2> QED BY <1>4, <2>2, <2>4, <2>5, <2>7, <2>8
<1>7. doc[pos.rec].receivers[l] \in Conn /\ doc[pos.send].senders[k] \in Conn BY <1>3
<1> QED BY <1>2, <1>5, <1>6, <1>7 DEF copyFromReceiver, copyFromSender

-----------------------------------------------------------------------------
(***************************************************************************)
(* Loading a document.                                                     *)
(***************************************************************************)

(* Every component has a module of its name. *)
Named(mods, doc) ==
    \A i \in 1..Len(doc) : \E m \in 1..Len(mods) : mods[m].name = doc[i].name

LEMMA OwnerProps ==
    ASSUME NEW mods \in Seq(ModuleSet), NEW c, \E m \in 1..Len(mods) : mods[m].name = c.name
    PROVE  Owner(c, mods) \in 1..Len(mods) /\ mods[Owner(c, mods)].name = c.name
<1>0. DOMAIN mods = 1..Len(mods) /\ Len(mods) \in Nat OBVIOUS
<1>1. PICK U : U = {j \in DOMAIN mods : mods[j].name = c.name} OBVIOUS
<1>2. U # {} BY <1>0, <1>1
<1>3. PICK f : f = [i \in 1..Len(mods) |-> i] OBVIOUS
<1>4. \A i \in 1..Len(mods) : f[i] = i BY <1>3
<1>5. {f[i] : i \in 1..Len(mods)} = 1..Len(mods) BY <1>4
<1>6. Among(U, f, Len(mods)) BY <1>0, <1>1, <1>4, <1>5 DEF Among
<1>7. IsMax(MaxOr(U, 0), U, 0) BY <1>6, Greatest
<1>8. MaxOr(U, 0) \in U BY <1>2, <1>7 DEF IsMax
<1>9. MaxOr(U, 0) = Owner(c, mods) BY <1>1, <1>2 DEF MaxOr, Owner
<1> QED BY <1>0, <1>1, <1>8, <1>9

(* A connector as it is read. *)
Item(mods, doc, i, side, k) ==
    [side |-> side, m |-> Owner(doc[i], mods), chid |-> k - 1, conn |-> doc[i][side][k]]
ItemSet == [side : Sides, m : Nat, chid : Nat, conn : Conn]
IsItem(mods, doc, x) ==
    \E i \in 1..Len(doc), side \in Sides : \E k \in 1..Len(doc[i][side]) :
        x = Item(mods, doc, i, side, k)

LEMMA ItemProps ==
    ASSUME NEW mods \in Seq(ModuleSet), NEW doc \in Document, Named(mods, doc),
           NEW i \in 1..Len(doc), NEW side \in Sides, NEW k \in 1..Len(doc[i][side])
    PROVE  Item(mods, doc, i, side, k) \in ItemSet
<1>1. Owner(doc[i], mods) \in 1..Len(mods) BY OwnerProps DEF Named
<1>2. Owner(doc[i], mods) \in Nat
  <2>1. Len(mods) \in Nat OBVIOUS
  <2> QED BY <1>1, <2>1
<1>3. doc[i][side] \in Seq(Conn) BY SidesOf
<1>4. doc[i][side][k] \in Conn /\ k - 1 \in Nat BY <1>3
<1> QED BY <1>2, <1>4 DEF Item, ItemSet

LEMMA ConnectorsAre ==
    ASSUME NEW mods \in Seq(ModuleSet), NEW doc \in Document, Named(mods, doc)
    PROVE  /\ Connectors(doc, mods) \in Seq(ItemSet)
           /\ \A x : In(x, Connectors(doc, mods)) <=> IsItem(mods, doc, x)
<1>0. DOMAIN doc = 1..Len(doc) /\ Len(doc) \in Nat BY DocumentIs
<1>1. PICK f : f = [i \in 1..Len(doc) |-> [k \in DOMAIN doc[i]["senders"] |-> Item(mods, doc, i, "senders", k)]]
  OBVIOUS
<1>2. PICK g : g = [i \in 1..Len(doc) |-> [k \in DOMAIN doc[i]["receivers"] |-> Item(mods, doc, i, "receivers", k)]]
  OBVIOUS
<1>3. PICK ss : ss = [i \in 1..Len(doc) |-> f[i] \o g[i]] OBVIOUS
<1>4. Connectors(doc, mods) = Flatten(ss)
  <2>1. Connectors(doc, mods) =
          Flatten([i \in DOMAIN doc |->
             [k \in DOMAIN doc[i]["senders"] |-> Item(mods, doc, i, "senders", k)]
             \o [k \in DOMAIN doc[i]["receivers"] |-> Item(mods, doc, i, "receivers", k)]])
    BY DEF Connectors, Item
  <2>2. \A i \in 1..Len(doc) :
          ss[i] = [k \in DOMAIN doc[i]["senders"] |-> Item(mods, doc, i, "senders", k)]
                  \o [k \in DOMAIN doc[i]["receivers"] |-> Item(mods, doc, i, "receivers", k)]
    BY <1>1, <1>2, <1>3
  <2>3. ss = [i \in DOMAIN doc |->
             [k \in DOMAIN doc[i]["senders"] |-> Item(mods, doc, i, "senders", k)]
             \o [k \in DOMAIN doc[i]["receivers"] |-> Item(mods, doc, i, "receivers", k)]]
    BY <1>0, <1>1, <1>2, <1>3
  <2> QED BY <2>1, <2>3
<1>5. "senders" \in Sides /\ "receivers" \in Sides BY DEF Sides
<1>6. ASSUME NEW i \in 1..Len(doc)
      PROVE  /\ f[i] \in Seq(ItemSet) /\ Len(f[i]) = Len(doc[i]["senders"])
             /\ \A k \in 1..Len(f[i]) : f[i][k] = Item(mods, doc, i, "senders", k)
             /\ g[i] \in Seq(ItemSet) /\ Len(g[i]) = Len(doc[i]["receivers"])
             /\ \A k \in 1..Len(g[i]) : g[i][k] = Item(mods, doc, i, "receivers", k)
  <2>1. PICK n \in Nat : n = Len(doc[i]["senders"]) /\ DOMAIN doc[i]["senders"] = 1..n
    <3>1. doc[i]["senders"] \in Seq(Conn) BY <1>5, SidesOf
    <3> QED BY <3>1
  <2>2. PICK m \in Nat : m = Len(doc[i]["receivers"]) /\ DOMAIN doc[i]["receivers"] = 1..m
    <3>1. doc[i]["receivers"] \in Seq(Conn) BY <1>5, SidesOf
    <3> QED BY <3>1
  <2>3. f[i] = [k \in 1..n |-> Item(mods, doc, i, "senders", k)] BY <1>1, <2>1
  <2>4. g[i] = [k \in 1..m |-> Item(mods, doc, i, "receivers", k)] BY <1>2, <2>2
  <2>5. \A k \in 1..n : Item(mods, doc, i, "senders", k) \in ItemSet BY <1>5, <2>1, ItemProps
  <2>6. \A k \in 1..m : Item(mods, doc, i, "receivers", k) \in ItemSet BY <1>5, <2>2, ItemProps
  <2>7. f[i] \in Seq(ItemSet) /\ Len(f[i]) = n BY <2>3, <2>5
  <2>8. g[i] \in Seq(ItemSet) /\ Len(g[i]) = m BY <2>4, <2>6
  <2> QED BY <2>1, <2>2, <2>3, <2>4, <2>7, <2>8
<1>7. ASSUME NEW i \in 1..Len(doc)
      PROVE  /\ ss[i] \in Seq(ItemSet)
             /\ \A x : In(x, ss[i]) <=> \E side \in Sides : \E k \in 1..Len(doc[i][side]) :
                                           x = Item(mods, doc, i, side, k)
  <2>1. PICK a \in Seq(ItemSet) : a = f[i] BY <1>6
  <2>2. PICK b \in Seq(ItemSet) : b = g[i] BY <1>6
  <2>3. ss[i] = a \o b BY <1>3, <2>1, <2>2
  <2>4. a \o b \in Seq(ItemSet) OBVIOUS
  <2>5. \A x : In(x, a \o b) <=> In(x, a) \/ In(x, b) BY InCat
  <2>6. \A x : In(x, a) <=> \E k \in 1..Len(doc[i]["senders"]) : x = Item(mods, doc, i, "senders", k)
    BY <1>6, <2>1 DEF In
  <2>7. \A x : In(x, b) <=> \E k \in 1..Len(doc[i]["receivers"]) : x = Item(mods, doc, i, "receivers", k)
    BY <1>6, <2>2 DEF In
  <2>8. ASSUME NEW x
        PROVE  In(x, ss[i]) <=> \E side \in Sides : \E k \in 1..Len(doc[i][side]) :
                                   x = Item(mods, doc, i, side, k)
    <3>1. In(x, ss[i]) <=> \/ \E k \in 1..Len(doc[i]["senders"]) : x = Item(mods, doc, i, "senders", k)
                           \/ \E k \in 1..Len(doc[i]["receivers"]) : x = Item(mods, doc, i, "receivers", k)
      BY <2>3, <2>5, <2>6, <2>7
    <3> QED BY <3>1, Zenon DEF Sides
  <2> QED BY <2>3, <2>4, <2>8
<1>8. ss \in Seq(Seq(ItemSet)) /\ Len(ss) = Len(doc)
  <2>1. ss = [i \in 1..Len(doc) |-> ss[i]] BY <1>3
  <2>2. \A i \in 1..Len(doc) : ss[i] \in Seq(ItemSet) BY <1>7
  <2> QED BY <1>0, <2>1, <2>2
<1>9. /\ Flatten(ss) \in Seq(ItemSet)
      /\ \A x : In(x, Flatten(ss)) <=> \E i \in 1..Len(doc) : In(x, ss[i])
  BY <1>8, FlatElements
<1>10. \A x : In(x, Flatten(ss)) <=> IsItem(mods, doc, x)
  <2> SUFFICES ASSUME NEW x PROVE In(x, Flatten(ss)) <=> IsItem(mods, doc, x)
    OBVIOUS
  <2>1. \A i \in 1..Len(doc) : In(x, ss[i]) <=>
           \E side \in Sides : \E k \in 1..Len(doc[i][side]) : x = Item(mods, doc, i, side, k)
    BY <1>7
  <2>2. In(x, Flatten(ss)) <=> \E i \in 1..Len(doc) : In(x, ss[i]) BY <1>9
  <2> QED BY <2>1, <2>2, Zenon DEF IsItem
<1> QED BY <1>4, <1>9, <1>10

(* For distinct names an item tells where its value is. *)
LEMMA ItemsAt ==
    ASSUME NEW mods \in Seq(ModuleSet), NEW doc \in Document, Named(mods, doc), DistinctNames(mods),
           NEW side \in Sides, NEW m, NEW chid \in Nat, NEW c
    PROVE  IsItem(mods, doc, [side |-> side, m |-> m, chid |-> chid, conn |-> c])
              <=> At(mods, doc, side, m, chid, c)
<1>0. DOMAIN doc = 1..Len(doc) /\ DOMAIN mods = 1..Len(mods) BY DocumentIs
<1>1. \A i \in 1..Len(doc) : DOMAIN doc[i][side] = 1..Len(doc[i][side]) BY SidesOf
<1>2. \A i \in 1..Len(doc) : /\ Owner(doc[i], mods) \in 1..Len(mods)
                             /\ mods[Owner(doc[i], mods)].name = doc[i].name
  BY OwnerProps DEF Named
<1>3. ASSUME IsItem(mods, doc, [side |-> side, m |-> m, chid |-> chid, conn |-> c])
      PROVE  At(mods, doc, side, m, chid, c)
  <2>1. PICK i \in 1..Len(doc), sd \in Sides : \E k \in 1..Len(doc[i][sd]) :
           [side |-> side, m |-> m, chid |-> chid, conn |-> c] = Item(mods, doc, i, sd, k)
    BY <1>3 DEF IsItem
  <2>2. PICK k \in 1..Len(doc[i][sd]) :
           [side |-> side, m |-> m, chid |-> chid, conn |-> c] = Item(mods, doc, i, sd, k)
    BY <2>1
  <2>3. sd = side /\ m = Owner(doc[i], mods) /\ chid = k - 1 /\ c = doc[i][sd][k]
    BY <2>2 DEF Item
  <2>4. k = chid + 1 BY <2>3
  <2> QED BY <1>0, <1>1, <1>2, <2>3, <2>4 DEF At
<1>4. ASSUME At(mods, doc, side, m, chid, c)
      PROVE  IsItem(mods, doc, [side |-> side, m |-> m, chid |-> chid, conn |-> c])
  <2>1. m \in 1..Len(mods) BY <1>0, <1>4 DEF At
  <2>2. PICK i \in 1..Len(doc) : /\ doc[i].name = mods[m].name
                                 /\ chid + 1 \in 1..Len(doc[i][side]) /\ doc[i][side][chid + 1] = c
    BY <1>0, <1>1, <1>4 DEF At
  <2>3. m = Owner(doc[i], mods) BY <1>0, <1>2, <2>1, <2>2 DEF DistinctNames
  <2>4. PICK k : k = chid + 1 OBVIOUS
  <2>5. k - 1 = chid BY <2>4
  <2>6. [side |-> side, m |-> m, chid |-> chid, conn |-> c] = Item(mods, doc, i, side, k)
    BY <2>2, <2>3, <2>4, <2>5 DEF Item
  <2>7. k \in 1..Len(doc[i][side]) BY <2>2, <2>4
  <2> QED BY <2>6, <2>7 DEF IsItem
<1> QED BY <1>3, <1>4

(* The parts of LinksOf. *)
FirstOf(conns, n) == conns[n].conn # Blank /\ \A k \in 1..n - 1 : conns[k].conn # conns[n].conn
LinkOf(x, y) == [mSend |-> x.m, ioSend |-> x.chid, mReceive |-> y.m, ioReceive |-> y.chid]
LinkAt(conns, n, a, b) ==
    IF /\ conns[a].side = "senders" /\ conns[b].side = "receivers"
       /\ conns[a].conn = conns[n].conn /\ conns[b].conn = conns[n].conn
    THEN <<LinkOf(conns[a], conns[b])>>
    ELSE <<>>
LinksFrom(conns, n, a) == Flatten([b \in 1..Len(conns) |-> LinkAt(conns, n, a, b)])
LinksAt(conns, n) == Flatten([a \in 1..Len(conns) |-> LinksFrom(conns, n, a)])

(* A sender and a receiver with the same value. *)
Match(x, y, c) == x.side = "senders" /\ y.side = "receivers" /\ x.conn = c /\ y.conn = c

LEMMA LinksAtProps ==
    ASSUME NEW conns \in Seq(ItemSet), NEW n
    PROVE  /\ LinksAt(conns, n) \in Seq(AnyLink)
           /\ \A l : In(l, LinksAt(conns, n)) <=>
                \E a, b \in 1..Len(conns) : /\ Match(conns[a], conns[b], conns[n].conn)
                                            /\ l = LinkOf(conns[a], conns[b])
<1>0. Len(conns) \in Nat /\ \A a \in 1..Len(conns) : conns[a] \in ItemSet OBVIOUS
<1>1. \A a, b \in 1..Len(conns) : LinkOf(conns[a], conns[b]) \in AnyLink
  <2>1. \A x, y \in ItemSet : LinkOf(x, y) \in AnyLink BY DEF ItemSet, LinkOf, AnyLink
  <2> QED BY <1>0, <2>1
<1>2. ASSUME NEW a \in 1..Len(conns), NEW b \in 1..Len(conns)
      PROVE  /\ LinkAt(conns, n, a, b) \in Seq(AnyLink)
             /\ \A l : In(l, LinkAt(conns, n, a, b)) <=>
                  Match(conns[a], conns[b], conns[n].conn) /\ l = LinkOf(conns[a], conns[b])
  <2>1. PICK d \in AnyLink : d = LinkOf(conns[a], conns[b]) BY <1>1
  <2>2. CASE Match(conns[a], conns[b], conns[n].conn)
    <3>1. LinkAt(conns, n, a, b) = <<d>> BY <2>1, <2>2 DEF LinkAt, Match
    <3>2. <<d>> \in Seq(AnyLink) /\ Len(<<d>>) = 1 /\ <<d>>[1] = d OBVIOUS
    <3>3. \A l : In(l, <<d>>) <=> l = d BY <3>2 DEF In
    <3> QED BY <2>1, <2>2, <3>1, <3>2, <3>3
  <2>3. CASE ~Match(conns[a], conns[b], conns[n].conn)
    <3>1. LinkAt(conns, n, a, b) = <<>> BY <2>3 DEF LinkAt, Match
    <3>2. <<>> \in Seq(AnyLink) /\ Len(<<>>) = 0 OBVIOUS
    <3>3. \A l : ~In(l, <<>>) BY <3>2 DEF In
    <3> QED BY <2>3, <3>1, <3>2, <3>3
  <2> QED BY <2>2, <2>3
<1>3. ASSUME NEW a \in 1..Len(conns)
      PROVE  /\ LinksFrom(conns, n, a) \in Seq(AnyLink)
             /\ \A l : In(l, LinksFrom(conns, n, a)) <=>
                  \E b \in 1..Len(conns) : In(l, LinkAt(conns, n, a, b))
  <2>1. PICK ss : ss = [b \in 1..Len(conns) |-> LinkAt(conns, n, a, b)] OBVIOUS
  <2>2. ss \in Seq(Seq(AnyLink)) /\ Len(ss) = Len(conns) BY <1>0, <1>2, <2>1
  <2>3. \A b \in 1..Len(conns) : ss[b] = LinkAt(conns, n, a, b) BY <2>1
  <2>4. /\ Flatten(ss) \in Seq(AnyLink)
        /\ \A x : In(x, Flatten(ss)) <=> \E b \in 1..Len(conns) : In(x, ss[b])
    BY <2>2, FlatElements
  <2>5. LinksFrom(conns, n, a) = Flatten(ss) BY <2>1 DEF LinksFrom
  <2> QED BY <2>3, <2>4, <2>5
<1>4. PICK ss : ss = [a \in 1..Len(conns) |-> LinksFrom(conns, n, a)] OBVIOUS
<1>5. ss \in Seq(Seq(AnyLink)) /\ Len(ss) = Len(conns) BY <1>0, <1>3, <1>4
<1>6. \A a \in 1..Len(conns) : ss[a] = LinksFrom(conns, n, a) BY <1>4
<1>7. /\ Flatten(ss) \in Seq(AnyLink)
      /\ \A x : In(x, Flatten(ss)) <=> \E a \in 1..Len(conns) : In(x, ss[a])
  BY <1>5, FlatElements
<1>8. LinksAt(conns, n) = Flatten(ss) BY <1>4 DEF LinksAt
<1>9. \A l : In(l, LinksAt(conns, n)) <=>
         \E a, b \in 1..Len(conns) : In(l, LinkAt(conns, n, a, b))
  BY <1>3, <1>6, <1>7, <1>8, Zenon
<1>10. \A l : In(l, LinksAt(conns, n)) <=>
         \E a, b \in 1..Len(conns) : /\ Match(conns[a], conns[b], conns[n].conn)
                                     /\ l = LinkOf(conns[a], conns[b])
  <2>1. \A a, b \in 1..Len(conns) : \A l : In(l, LinkAt(conns, n, a, b)) <=>
           Match(conns[a], conns[b], conns[n].conn) /\ l = LinkOf(conns[a], conns[b])
    BY <1>2
  <2>2. ASSUME NEW l, In(l, LinksAt(conns, n))
        PROVE  \E a, b \in 1..Len(conns) : /\ Match(conns[a], conns[b], conns[n].conn)
                                            /\ l = LinkOf(conns[a], conns[b])
    <3>1. PICK a, b \in 1..Len(conns) : In(l, LinkAt(conns, n, a, b)) BY <1>9, <2>2
    <3> QED BY <2>1, <3>1
  <2>3. ASSUME NEW a \in 1..Len(conns), NEW b \in 1..Len(conns),
               Match(conns[a], conns[b], conns[n].conn)
        PROVE  In(LinkOf(conns[a], conns[b]), LinksAt(conns, n))
    <3>1. In(LinkOf(conns[a], conns[b]), LinkAt(conns, n, a, b)) BY <2>1, <2>3
    <3> QED BY <1>9, <3>1
  <2> QED BY <2>2, <2>3
<1> QED BY <1>7, <1>8, <1>10

(* The links of a document join items of one value. *)
LEMMA LinksMatch ==
    ASSUME NEW mods \in Seq(ModuleSet), NEW doc \in Document, Named(mods, doc)
    PROVE  /\ LinksOf(doc, mods) \in Seq(AnyLink)
           /\ \A l : In(l, LinksOf(doc, mods)) <=>
                \E x, y : /\ IsItem(mods, doc, x) /\ IsItem(mods, doc, y)
                          /\ Match(x, y, x.conn) /\ x.conn # Blank /\ l = LinkOf(x, y)
<1>1. PICK conns : conns = Connectors(doc, mods) OBVIOUS
<1>2. conns \in Seq(ItemSet) /\ \A x : In(x, conns) <=> IsItem(mods, doc, x)
  BY <1>1, ConnectorsAre
<1>3. DOMAIN conns = 1..Len(conns) /\ Len(conns) \in Nat BY <1>2
<1>4. PICK ss : ss = [n \in 1..Len(conns) |-> IF FirstOf(conns, n) THEN LinksAt(conns, n) ELSE <<>>]
  OBVIOUS
<1>5. LinksOf(doc, mods) = Flatten(ss)
  BY <1>1, <1>3, <1>4 DEF LinksOf, FirstOf, LinkAt, LinkOf, LinksFrom, LinksAt
<1>6. ASSUME NEW n \in 1..Len(conns)
      PROVE  /\ ss[n] \in Seq(AnyLink)
             /\ \A l : In(l, ss[n]) <=> FirstOf(conns, n) /\ In(l, LinksAt(conns, n))
  <2>1. CASE FirstOf(conns, n)
    <3>1. ss[n] = LinksAt(conns, n) BY <1>4, <2>1
    <3>2. LinksAt(conns, n) \in Seq(AnyLink) BY <1>2, LinksAtProps
    <3> QED BY <2>1, <3>1, <3>2
  <2>2. CASE ~FirstOf(conns, n)
    <3>1. ss[n] = <<>> BY <1>4, <2>2
    <3>2. <<>> \in Seq(AnyLink) /\ Len(<<>>) = 0 OBVIOUS
    <3>3. \A l : ~In(l, <<>>) BY <3>2 DEF In
    <3> QED BY <2>2, <3>1, <3>2, <3>3
  <2> QED BY <2>1, <2>2
<1>7. ss \in Seq(Seq(AnyLink)) /\ Len(ss) = Len(conns)
  <2>1. ss = [n \in 1..Len(conns) |-> ss[n]] BY <1>4
  <2>2. \A n \in 1..Len(conns) : ss[n] \in Seq(AnyLink) BY <1>6
  <2> QED BY <1>3, <2>1, <2>2
<1>8. /\ Flatten(ss) \in Seq(AnyLink)
      /\ \A x : In(x, Flatten(ss)) <=> \E n \in 1..Len(conns) : In(x, ss[n])
  BY <1>7, FlatElements
<1>9. ASSUME NEW l, In(l, Flatten(ss))
      PROVE  \E x, y : /\ IsItem(mods, doc, x) /\ IsItem(mods, doc, y)
                       /\ Match(x, y, x.conn) /\ x.conn # Blank /\ l = LinkOf(x, y)
  <2>1. PICK n \in 1..Len(conns) : FirstOf(conns, n) /\ In(l, LinksAt(conns, n)) BY <1>6, <1>8, <1>9
  <2>2. PICK a, b \in 1..Len(conns) : /\ Match(conns[a], conns[b], conns[n].conn)
                                      /\ l = LinkOf(conns[a], conns[b])
    BY <1>2, <2>1, LinksAtProps
  <2>3. PICK x : x = conns[a] OBVIOUS
  <2>4. PICK y : y = conns[b] OBVIOUS
  <2>5. IsItem(mods, doc, x) /\ IsItem(mods, doc, y) BY <1>2, <2>3, <2>4 DEF In
  <2>6. x.conn = conns[n].conn /\ conns[n].conn # Blank BY <2>1, <2>2, <2>3 DEF Match, FirstOf
  <2> QED BY <2>2, <2>3, <2>4, <2>5, <2>6
<1>10. ASSUME NEW x, NEW y, IsItem(mods, doc, x), IsItem(mods, doc, y),
              Match(x, y, x.conn), x.conn # Blank
       PROVE  In(LinkOf(x, y), Flatten(ss))
  <2>1. PICK a \in 1..Len(conns) : conns[a] = x BY <1>2, <1>10 DEF In
  <2>2. PICK b \in 1..Len(conns) : conns[b] = y BY <1>2, <1>10 DEF In
  <2>3. PICK T : T = {n \in 1..Len(conns) : conns[n].conn = x.conn} OBVIOUS
  <2>4. a \in T /\ T \in SUBSET Nat /\ T # {} BY <2>1, <2>3
  <2>5. PICK n : n = Min(T) OBVIOUS
  <2>6. n \in T /\ \A k \in T : n =< k BY <2>4, <2>5, Least
  <2>7. n \in 1..Len(conns) /\ conns[n].conn = x.conn BY <2>3, <2>6
  <2>8. \A k \in 1..n - 1 : conns[k].conn # conns[n].conn
    <3> SUFFICES ASSUME NEW k \in 1..n - 1, conns[k].conn = x.conn PROVE FALSE
      BY <2>7
    <3>1. k \in 1..Len(conns) /\ ~(n =< k) BY <1>3, <2>7
    <3>2. k \in T BY <2>3, <3>1
    <3> QED BY <2>6, <3>1, <3>2
  <2>9. FirstOf(conns, n) BY <1>10, <2>7, <2>8 DEF FirstOf
  <2>10. In(LinkOf(x, y), LinksAt(conns, n))
    <3>1. Match(conns[a], conns[b], conns[n].conn) /\ LinkOf(x, y) = LinkOf(conns[a], conns[b])
      BY <1>10, <2>1, <2>2, <2>7
    <3> QED BY <1>2, <3>1, LinksAtProps
  <2> QED BY <1>6, <1>8, <2>7, <2>9, <2>10
<1> QED BY <1>5, <1>8, <1>9, <1>10

(* For distinct names they are the links that some value joins. *)
LEMMA LinksJoin ==
    ASSUME NEW mods \in Seq(ModuleSet), NEW doc \in Document, Named(mods, doc), DistinctNames(mods)
    PROVE  ToSet(LinksOf(doc, mods)) = {l \in AnyLink : \E c \in Value : Joins(mods, doc, l, c)}
<1>1. PICK links \in Seq(AnyLink) : links = LinksOf(doc, mods) BY LinksMatch
<1>2. \A l : l \in ToSet(links) <=> In(l, links) BY DEF ToSet, In
<1>3. \A l : In(l, links) => l \in AnyLink BY DEF In
<1>4. "senders" \in Sides /\ "receivers" \in Sides BY DEF Sides
<1>5. ASSUME NEW l, In(l, links) PROVE \E c \in Value : Joins(mods, doc, l, c)
  <2>1. PICK x, y : /\ IsItem(mods, doc, x) /\ IsItem(mods, doc, y)
                    /\ Match(x, y, x.conn) /\ x.conn # Blank /\ l = LinkOf(x, y)
    BY <1>1, <1>5, LinksMatch
  <2>2. x \in ItemSet /\ y \in ItemSet BY <2>1, ItemProps DEF IsItem
  <2>3. PICK c \in Conn : c = x.conn BY <2>2 DEF ItemSet
  <2>4. c \in Value BY <2>1, <2>3 DEF Value
  <2>5. x = [side |-> "senders", m |-> l.mSend, chid |-> l.ioSend, conn |-> c]
    BY <2>1, <2>2, <2>3 DEF ItemSet, Match, LinkOf
  <2>6. y = [side |-> "receivers", m |-> l.mReceive, chid |-> l.ioReceive, conn |-> c]
    BY <2>1, <2>2, <2>3 DEF ItemSet, Match, LinkOf
  <2>7. l.ioSend \in Nat /\ l.ioReceive \in Nat BY <1>3, <1>5 DEF AnyLink
  <2>8. At(mods, doc, "senders", l.mSend, l.ioSend, c) BY <1>4, <2>1, <2>5, <2>7, ItemsAt
  <2>9. At(mods, doc, "receivers", l.mReceive, l.ioReceive, c) BY <1>4, <2>1, <2>6, <2>7, ItemsAt
  <2> QED BY <2>4, <2>8, <2>9 DEF Joins
<1>6. ASSUME NEW l \in AnyLink, NEW c \in Value, Joins(mods, doc, l, c) PROVE In(l, links)
  <2>1. PICK x : x = [side |-> "senders", m |-> l.mSend, chid |-> l.ioSend, conn |-> c] OBVIOUS
  <2>2. PICK y : y = [side |-> "receivers", m |-> l.mReceive, chid |-> l.ioReceive, conn |-> c] OBVIOUS
  <2>3. l.ioSend \in Nat /\ l.ioReceive \in Nat BY DEF AnyLink
  <2>4. IsItem(mods, doc, x) BY <1>4, <1>6, <2>1, <2>3, ItemsAt DEF Joins
  <2>5. IsItem(mods, doc, y) BY <1>4, <1>6, <2>2, <2>3, ItemsAt DEF Joins
  <2>6. Match(x, y, x.conn) /\ x.conn # Blank BY <2>1, <2>2 DEF Match, Value
  <2>7. l = LinkOf(x, y) BY <2>1, <2>2 DEF LinkOf, AnyLink
  <2> QED BY <1>1, <2>4, <2>5, <2>6, <2>7, LinksMatch
<1> QED BY <1>1, <1>2, <1>3, <1>5, <1>6

(* The connectors that module m is given on one side, with their component. *)
Given(mods, doc, m, side) ==
    UNION {{i} \X DOMAIN doc[i][side] : i \in {j \in DOMAIN doc : Owner(doc[j], mods) = m}}

(* The component is the only one that the module is given. *)
OnlyOf(mods, doc, m, i) == {j \in DOMAIN doc : Owner(doc[j], mods) = m} = {i}

LEMMA GivenCount ==
    ASSUME NEW mods, NEW doc \in Document, NEW m, NEW side \in Sides
    PROVE  /\ Cardinality(Given(mods, doc, m, side)) \in Nat
           /\ \A i \in 1..Len(doc) :
                 OnlyOf(mods, doc, m, i) =>
                    Cardinality(Given(mods, doc, m, side)) = Len(doc[i][side])
<1>0. DOMAIN doc = 1..Len(doc) /\ Len(doc) \in Nat BY DocumentIs
<1>1. ASSUME NEW i \in 1..Len(doc)
      PROVE  /\ IsFiniteSet({i} \X DOMAIN doc[i][side])
             /\ Cardinality({i} \X DOMAIN doc[i][side]) = Len(doc[i][side])
  <2>1. PICK n \in Nat : n = Len(doc[i][side]) /\ DOMAIN doc[i][side] = 1..n
    <3>1. doc[i][side] \in Seq(Conn) BY SidesOf
    <3> QED BY <3>1
  <2>2. IsFiniteSet(1..n) /\ Cardinality(1..n) = n
    <3>1. 1 \in Int /\ n \in Int /\ (IF 1 > n THEN 0 ELSE n - 1 + 1) = n OBVIOUS
    <3> QED BY <3>1, FS_Interval
  <2>3. PICK P : P = {i} \X (1..n) OBVIOUS
  <2>4. PICK f : f = [k \in 1..n |-> <<i, k>>] OBVIOUS
  <2>5. f \in [1..n -> P] BY <2>3, <2>4
  <2>6. \A t \in P : \E k \in 1..n : f[k] = t BY <2>3, <2>4
  <2>7. \A j, k \in 1..n : f[j] = f[k] => j = k BY <2>4
  <2>8. f \in Surjection(1..n, P) BY <2>5, <2>6 DEF Surjection
  <2>9. f \in Injection(1..n, P) BY <2>5, <2>7 DEF Injection, IsInjective
  <2>10. IsFiniteSet(P) /\ Cardinality(P) = Cardinality(1..n)
    BY <2>2, <2>8, <2>9, FS_Surjection
  <2> QED BY <2>1, <2>2, <2>3, <2>10
<1>2. PICK J : J = {j \in DOMAIN doc : Owner(doc[j], mods) = m} OBVIOUS
<1>3. PICK I : I = {{i} \X DOMAIN doc[i][side] : i \in J} OBVIOUS
<1>4. Given(mods, doc, m, side) = UNION I BY <1>2, <1>3 DEF Given
<1>5. IsFiniteSet(J)
  <2>1. IsFiniteSet(1..Len(doc)) BY <1>0, FS_Interval
  <2>2. J \in SUBSET (1..Len(doc)) BY <1>0, <1>2
  <2> QED BY <2>1, <2>2, FS_Subset
<1>6. IsFiniteSet(I)
  <2>1. PICK f : f = [i \in J |-> {i} \X DOMAIN doc[i][side]] OBVIOUS
  <2>2. f \in [J -> I] BY <1>3, <2>1
  <2>3. \A t \in I : \E i \in J : f[i] = t BY <1>3, <2>1
  <2>4. f \in Surjection(J, I) BY <2>2, <2>3 DEF Surjection
  <2> QED BY <1>5, <2>4, FS_Surjection
<1>7. \A T \in I : IsFiniteSet(T) BY <1>0, <1>1, <1>2, <1>3
<1>8. IsFiniteSet(UNION I) BY <1>6, <1>7, FS_UNION
<1>9. Cardinality(UNION I) \in Nat BY <1>8, FS_CardinalityType
<1>10. ASSUME NEW i \in 1..Len(doc), J = {i} PROVE Cardinality(UNION I) = Len(doc[i][side])
  <2>1. UNION I = {i} \X DOMAIN doc[i][side] BY <1>3, <1>10
  <2> QED BY <1>1, <2>1
<1> QED BY <1>2, <1>4, <1>9, <1>10 DEF OnlyOf

(* A module with the connectors of the components that it is given. *)
WithGiven(mods, doc, m) ==
    makeReceiverContainerREADINGONLY(
        makeSenderContainerREADINGONLY(mods[m], Cardinality(Given(mods, doc, m, "senders"))),
        Cardinality(Given(mods, doc, m, "receivers")))

(* Loading adds one module for each component. *)
Added(mods, doc, full) ==
    /\ Len(full) = Len(mods) + Len(doc)
    /\ \A i \in 1..Len(doc) : /\ full[Len(mods) + i].name = doc[i].name
                              /\ full[Len(mods) + i].port = doc[i].port

LEMMA LoadedIs ==
    ASSUME moduleArray \in Seq(ModuleSet), NEW doc \in Document
    PROVE  \E mods \in Seq(ModuleSet) :
              /\ Len(mods) = Len(moduleArray) + Len(doc)
              /\ \A i \in 1..Len(doc) :
                    mods[Len(moduleArray) + i] = Module(doc[i].name, doc[i].port)
              /\ Loaded(doc) = [m \in 1..Len(mods) |-> WithGiven(mods, doc, m)]
<1>0. doc \in Seq(ComponentSet) /\ DOMAIN doc = 1..Len(doc) /\ Len(doc) \in Nat BY DocumentIs
<1>1. PICK new : new = [i \in 1..Len(doc) |-> Module(doc[i].name, doc[i].port)] OBVIOUS
<1>2. ASSUME NEW i \in 1..Len(doc) PROVE Module(doc[i].name, doc[i].port) \in ModuleSet
  <2>1. doc[i] \in ComponentSet BY <1>0
  <2>2. PICK name \in NameSet, port \in Nat : name = doc[i].name /\ port = doc[i].port
    BY <2>1 DEF ComponentSet
  <2>3. Module(name, port) \in ModuleSet BY DEF Module, ModuleSet
  <2> QED BY <2>2, <2>3
<1>3. new \in Seq(ModuleSet) /\ Len(new) = Len(doc) BY <1>0, <1>1, <1>2
<1>4. PICK mods : mods = moduleArray \o new OBVIOUS
<1>5. /\ mods \in Seq(ModuleSet) /\ Len(mods) = Len(moduleArray) + Len(doc)
      /\ \A i \in 1..Len(doc) : mods[Len(moduleArray) + i] = new[i]
  <2>1. PICK a \in Seq(ModuleSet) : a = moduleArray OBVIOUS
  <2>2. PICK b \in Seq(ModuleSet) : b = new BY <1>3
  <2>3. PICK c : c = a \o b OBVIOUS
  <2>4. c \in Seq(ModuleSet) /\ Len(c) = Len(a) + Len(b) BY <2>3, Cat, Zenon
  <2>5. \A i \in 1..Len(b) : c[Len(a) + i] = b[i] BY <2>3, Cat
  <2> QED BY <1>3, <1>4, <2>1, <2>2, <2>3, <2>4, <2>5
<1>6. mods = dragAndDrop(doc) BY <1>0, <1>1, <1>4 DEF dragAndDrop
<1>7. DOMAIN mods = 1..Len(mods) BY <1>5
<1>8. Loaded(doc) = [m \in 1..Len(mods) |-> WithGiven(mods, doc, m)]
  BY <1>6, <1>7 DEF Loaded, WithGiven, Given
<1> QED BY <1>1, <1>5, <1>8

LEMMA WithGivenProps ==
    ASSUME NEW mods \in Seq(ModuleSet), NEW doc \in Document, NEW m \in 1..Len(mods)
    PROVE  /\ WithGiven(mods, doc, m) \in ModuleSet
           /\ WithGiven(mods, doc, m).name = mods[m].name
           /\ WithGiven(mods, doc, m).port = mods[m].port
           /\ WithGiven(mods, doc, m).nSend
                 = mods[m].nSend + Cardinality(Given(mods, doc, m, "senders"))
           /\ WithGiven(mods, doc, m).nReceive
                 = mods[m].nReceive + Cardinality(Given(mods, doc, m, "receivers"))
<1>1. PICK a \in Nat : a = Cardinality(Given(mods, doc, m, "senders"))
  BY GivenCount DEF Sides
<1>2. PICK b \in Nat : b = Cardinality(Given(mods, doc, m, "receivers"))
  BY GivenCount DEF Sides
<1>3. mods[m] \in ModuleSet OBVIOUS
<1>4. WithGiven(mods, doc, m)
        = [[mods[m] EXCEPT !.nSend = @ + a] EXCEPT !.nReceive = @ + b]
  BY <1>1, <1>2 DEF WithGiven, makeSenderContainerREADINGONLY, makeReceiverContainerREADINGONLY
<1>5. PICK x \in ModuleSet : x = mods[m] BY <1>3
<1>6. PICK y : y = [[x EXCEPT !.nSend = @ + a] EXCEPT !.nReceive = @ + b] OBVIOUS
<1>7. /\ y \in ModuleSet /\ y.name = x.name /\ y.port = x.port
      /\ y.nSend = x.nSend + a /\ y.nReceive = x.nReceive + b
  <2>1. PICK name \in NameSet, port \in Nat, s \in Nat, t \in Nat :
            x = [name |-> name, port |-> port, nSend |-> s, nReceive |-> t]
    BY DEF ModuleSet
  <2>2. y = [name |-> name, port |-> port, nSend |-> s + a, nReceive |-> t + b]
    BY <1>6, <2>1
  <2>3. s + a \in Nat /\ t + b \in Nat BY <1>1, <1>2
  <2>4. y \in ModuleSet BY <2>2, <2>3 DEF ModuleSet
  <2> QED BY <2>1, <2>2, <2>4
<1> QED BY <1>1, <1>2, <1>4, <1>5, <1>6, <1>7

LEMMA LoadedProps ==
    ASSUME moduleArray \in Seq(ModuleSet), NEW doc \in Document
    PROVE  /\ Loaded(doc) \in Seq(ModuleSet) /\ Named(Loaded(doc), doc)
           /\ Added(moduleArray, doc, Loaded(doc))
<1>1. PICK mods \in Seq(ModuleSet) :
          /\ Len(mods) = Len(moduleArray) + Len(doc)
          /\ \A i \in 1..Len(doc) :
                mods[Len(moduleArray) + i] = Module(doc[i].name, doc[i].port)
          /\ Loaded(doc) = [m \in 1..Len(mods) |-> WithGiven(mods, doc, m)]
  BY LoadedIs
<1>2. PICK full : full = Loaded(doc) OBVIOUS
<1>3. PICK n \in Nat : n = Len(moduleArray) OBVIOUS
<1>4. PICK k \in Nat : k = Len(doc) BY DocumentIs
<1>5. Len(mods) = n + k BY <1>1, <1>3, <1>4
<1>6. \A m \in 1..(n + k) : WithGiven(mods, doc, m) \in ModuleSet BY <1>5, WithGivenProps
<1>7. full = [m \in 1..(n + k) |-> WithGiven(mods, doc, m)] BY <1>1, <1>2, <1>5
<1>8. full \in Seq(ModuleSet) /\ Len(full) = n + k BY <1>6, <1>7
<1>9. ASSUME NEW i \in 1..k
      PROVE  /\ n + i \in 1..(n + k)
             /\ full[n + i].name = doc[i].name /\ full[n + i].port = doc[i].port
  <2>1. n + i \in 1..(n + k) OBVIOUS
  <2>2. full[n + i] = WithGiven(mods, doc, n + i) BY <1>7, <2>1
  <2>3. mods[n + i] = Module(doc[i].name, doc[i].port) BY <1>1, <1>3, <1>4
  <2>4. mods[n + i].name = doc[i].name /\ mods[n + i].port = doc[i].port BY <2>3 DEF Module
  <2> QED BY <1>5, <2>1, <2>2, <2>4, WithGivenProps
<1>10. Added(moduleArray, doc, full) BY <1>3, <1>4, <1>8, <1>9 DEF Added
<1>11. Named(full, doc) BY <1>4, <1>8, <1>9 DEF Named
<1> QED BY <1>2, <1>8, <1>10, <1>11

LEMMA LoadedCovers ==
    ASSUME moduleArray = <<>>, NEW doc \in Document, DistinctNames(doc)
    PROVE  Covers(Loaded(doc), doc)
<1>0. moduleArray \in Seq(ModuleSet) /\ Len(moduleArray) = 0 OBVIOUS
<1>1. PICK mods \in Seq(ModuleSet) :
          /\ Len(mods) = Len(moduleArray) + Len(doc)
          /\ \A i \in 1..Len(doc) :
                mods[Len(moduleArray) + i] = Module(doc[i].name, doc[i].port)
          /\ Loaded(doc) = [m \in 1..Len(mods) |-> WithGiven(mods, doc, m)]
  BY <1>0, LoadedIs
<1>2. PICK n \in Nat : n = Len(doc) /\ DOMAIN doc = 1..n BY DocumentIs
<1>3. Len(mods) = n BY <1>0, <1>1, <1>2
<1>4. \A i \in 1..n : mods[i] = Module(doc[i].name, doc[i].port) BY <1>0, <1>1, <1>2
<1>5. PICK full : full = Loaded(doc) OBVIOUS
<1>6. full = [m \in 1..n |-> WithGiven(mods, doc, m)] BY <1>1, <1>3, <1>5
<1>7. \A i \in 1..n : /\ mods[i].name = doc[i].name /\ mods[i].nSend = 0
                      /\ mods[i].nReceive = 0
  <2>1. \A x, y : /\ Module(x, y).name = x /\ Module(x, y).nSend = 0
                  /\ Module(x, y).nReceive = 0
    BY DEF Module
  <2> QED BY <1>4, <2>1
<1>8. \A i \in 1..n : Owner(doc[i], mods) = i
  <2> SUFFICES ASSUME NEW i \in 1..n PROVE Owner(doc[i], mods) = i OBVIOUS
  <2>1. \E m \in 1..Len(mods) : mods[m].name = doc[i].name BY <1>3, <1>7
  <2>2. PICK o \in 1..n : o = Owner(doc[i], mods) /\ mods[o].name = doc[i].name
    BY <1>3, <2>1, OwnerProps
  <2>3. doc[o].name = doc[i].name BY <1>7, <2>2
  <2> QED BY <1>2, <2>2, <2>3 DEF DistinctNames
<1>9. ASSUME NEW m \in 1..n
      PROVE  /\ doc[m].name = full[m].name /\ Len(doc[m].senders) >= full[m].nSend
             /\ Len(doc[m].receivers) >= full[m].nReceive
  <2>1. OnlyOf(mods, doc, m, m) BY <1>2, <1>8 DEF OnlyOf
  <2>2. /\ Cardinality(Given(mods, doc, m, "senders")) = Len(doc[m]["senders"])
        /\ Cardinality(Given(mods, doc, m, "receivers")) = Len(doc[m]["receivers"])
    <3>1. "senders" \in Sides /\ "receivers" \in Sides BY DEF Sides
    <3>2. m \in 1..Len(doc) BY <1>2
    <3>3. \A side \in Sides : Cardinality(Given(mods, doc, m, side)) = Len(doc[m][side])
      BY <2>1, <3>2, GivenCount, Zenon
    <3> QED BY <3>1, <3>3
  <2>3. /\ full[m].name = mods[m].name
        /\ full[m].nSend = mods[m].nSend + Cardinality(Given(mods, doc, m, "senders"))
        /\ full[m].nReceive = mods[m].nReceive + Cardinality(Given(mods, doc, m, "receivers"))
    BY <1>3, <1>6, WithGivenProps
  <2>4. Len(doc[m].senders) \in Nat /\ Len(doc[m].receivers) \in Nat
    <3>1. doc[m]["senders"] \in Seq(Conn) /\ doc[m]["receivers"] \in Seq(Conn)
      BY <1>2, SidesOf DEF Sides
    <3> QED BY <3>1
  <2> QED BY <1>7, <2>2, <2>3, <2>4
<1>10. DOMAIN full = 1..n BY <1>6
<1> QED BY <1>2, <1>5, <1>9, <1>10 DEF Covers

LEMMA PortsNat ==
    ASSUME NEW doc \in Document, NEW p \in Ports(doc)
    PROVE  p \in Nat
<1>1. PortAt(doc, p) BY PortsAre
<1>2. PICK i \in 1..Len(doc), side \in Sides :
          \E k \in 1..Len(doc[i][side]) :
             doc[i][side][k].transport = "tcp" /\ doc[i][side][k].key = p
  BY <1>1 DEF PortAt
<1>3. PICK k \in 1..Len(doc[i][side]) :
          doc[i][side][k].transport = "tcp" /\ doc[i][side][k].key = p
  BY <1>2
<1>4. PICK c \in Conn : c = doc[i][side][k] BY SidesOf
<1> QED BY <1>3, <1>4 DEF Conn, Blank

LEMMA PortsMax ==
    ASSUME NEW mods \in Seq(ModuleSet), NEW doc \in Document, Named(mods, doc)
    PROVE  Ports(doc) \subseteq Nat /\ IsMax(MaxOr(Ports(doc), -1), Ports(doc), -1)
<1>1. PICK conns \in Seq(ItemSet) :
          conns = Connectors(doc, mods) /\ \A x : In(x, conns) <=> IsItem(mods, doc, x)
  BY ConnectorsAre
<1>2. PICK n \in Nat : n = Len(conns) OBVIOUS
<1>3. PICK f : f = [k \in 1..n |-> IF conns[k].conn.transport = "tcp" THEN conns[k].conn.key ELSE 0]
  OBVIOUS
<1>4. ASSUME NEW c \in Conn, c.transport = "tcp" PROVE c.key \in Nat
  BY <1>4 DEF Conn, Blank
<1>5. ASSUME NEW k \in 1..n PROVE f[k] \in Nat
  <2>0. conns[k] \in ItemSet BY <1>2
  <2>1. conns[k].conn \in Conn BY <2>0 DEF ItemSet
  <2> QED BY <1>3, <1>4, <2>1
<1>6. ASSUME NEW p \in Ports(doc) PROVE p \in Nat /\ \E k \in 1..n : f[k] = p
  <2>1. PortAt(doc, p) BY PortsAre
  <2>a. PICK i \in 1..Len(doc), side \in Sides :
            \E k \in 1..Len(doc[i][side]) :
               doc[i][side][k].transport = "tcp" /\ doc[i][side][k].key = p
    BY <2>1 DEF PortAt
  <2>2. PICK k \in 1..Len(doc[i][side]) :
            doc[i][side][k].transport = "tcp" /\ doc[i][side][k].key = p
    BY <2>a
  <2>3. PICK x : x = Item(mods, doc, i, side, k) OBVIOUS
  <2>4. IsItem(mods, doc, x) BY <2>3 DEF IsItem
  <2>5. x.conn = doc[i][side][k] BY <2>3 DEF Item
  <2>6. PICK q \in 1..n : conns[q] = x BY <1>1, <1>2, <2>4 DEF In
  <2>7. f[q] = p BY <1>3, <2>2, <2>5, <2>6
  <2> QED BY <1>5, <2>7
<1>7. Among(Ports(doc), f, n) BY <1>5, <1>6 DEF Among
<1>8. IsMax(MaxOr(Ports(doc), -1), Ports(doc), -1) BY <1>7, Greatest
<1> QED BY <1>6, <1>8

LEMMA ModulePortsMax ==
    ASSUME NEW doc \in Document, NEW U, U = {doc[k].port : k \in DOMAIN doc}
    PROVE  U \subseteq Nat /\ IsMax(MaxOr(U, -1), U, -1)
<1>1. PICK n \in Nat : n = Len(doc) /\ DOMAIN doc = 1..n BY DocumentIs
<1>2. PICK f : f = [k \in 1..n |-> doc[k].port] OBVIOUS
<1>3. \A k \in 1..n : doc[k].port \in Nat
  <2>1. \A k \in 1..n : doc[k] \in ComponentSet BY <1>1, DocumentIs
  <2> QED BY <2>1 DEF ComponentSet
<1>4. U \subseteq {f[k] : k \in 1..n} BY <1>1, <1>2
<1>5. Among(U, f, n) BY <1>2, <1>3, <1>4 DEF Among
<1> QED BY <1>1, <1>3, <1>5, Greatest

(* The port generator after loading is above the ports that were found. *)
LEMMA RangeAbove ==
    ASSUME NEW current \in Nat, NEW U \in SUBSET Nat, IsMax(MaxOr(U, -1), U, -1)
    PROVE  /\ portRange(current, MaxOr(U, -1)) \in Nat
           /\ \A p \in U : p < portRange(current, MaxOr(U, -1))
<1>1. PICK x : x = MaxOr(U, -1) OBVIOUS
<1>2. x \in Nat \cup {-1} /\ \A p \in U : x >= p BY <1>1 DEF IsMax
<1>3. \A p \in U : x # -1 BY <1>2
<1>4. portRange(current, x) = IF x = -1 THEN current + 1 ELSE x + 1 BY DEF portRange
<1>5. portRange(current, x) \in Nat BY <1>2, <1>4
<1>6. \A p \in U : p < portRange(current, x) BY <1>2, <1>3, <1>4
<1> QED BY <1>1, <1>5, <1>6

LEMMA AddedProps ==
    ASSUME NEW full \in Seq(ModuleSet), NEW doc \in Document, Added(<<>>, doc, full)
    PROVE  /\ DistinctNames(full) => DistinctNames(doc)
           /\ PortsDiffer(doc) => PortsDiffer(full)
           /\ OnCanvas(full, doc)
           /\ \A n : (\A i \in 1..Len(doc) : doc[i].port < n) => Below(full, n)
<1>1. PICK n \in Nat : n = Len(doc) /\ DOMAIN doc = 1..n BY DocumentIs
<1>2. Len(full) = n /\ \A i \in 1..n : full[i].name = doc[i].name /\ full[i].port = doc[i].port
  <2>1. Len(<<>>) = 0 OBVIOUS
  <2> QED BY <1>1, <2>1 DEF Added
<1>3. DOMAIN full = 1..n BY <1>2
<1>4. DistinctNames(full) => DistinctNames(doc) BY <1>1, <1>2, <1>3 DEF DistinctNames
<1>5. PortsDiffer(doc) => PortsDiffer(full) BY <1>1, <1>2, <1>3 DEF PortsDiffer
<1>6. OnCanvas(full, doc) BY <1>1, <1>2, <1>3 DEF OnCanvas
<1>7. \A x : (\A i \in 1..Len(doc) : doc[i].port < x) => Below(full, x)
  BY <1>1, <1>2, <1>3 DEF Below
<1> QED BY <1>4, <1>5, <1>6, <1>7

-----------------------------------------------------------------------------
(***************************************************************************)
(* The chains in flight.  While nothing overlaps there is at most one.     *)
(***************************************************************************)

(* What the chain of a request does to the document. *)
SameChain(a, b) ==
    a.kind = b.kind /\ a.mSend = b.mSend /\ a.mRec = b.mRec /\ a.from = b.from

LEMMA OnlyOne ==
    ASSUME RequestsTyped, HistoryInv, requests # <<>>, ~overlapped \/ ~unsaved
    PROVE  /\ Len(requests) = 1 /\ DOMAIN requests = {1} /\ requests[1] \in RequestSet
           /\ requests[1].alone /\ ~unsaved /\ (~overlapped => ~form.open)
<1>1. PICK n \in Nat : n = Len(requests) /\ DOMAIN requests = 1..n BY DEF RequestsTyped
<1>2. n # 0 BY <1>1 DEF RequestsTyped
<1>3. ~unsaved BY DEF HistoryInv
<1>4. requests[1].alone BY <1>1, <1>2, <1>3 DEF HistoryInv
<1>5. Len(requests) = 1 BY <1>1, <1>2, <1>4 DEF HistoryInv
<1>6. DOMAIN requests = {1} /\ requests[1] \in RequestSet BY <1>1, <1>5 DEF RequestsTyped
<1>7. ~overlapped => ~form.open BY DEF HistoryInv
<1> QED BY <1>3, <1>4, <1>5, <1>6, <1>7

LEMMA AloneIsOne ==
    ASSUME RequestsTyped, HistoryInv, NEW i \in DOMAIN requests, requests[i].alone
    PROVE  Len(requests) = 1 /\ i = 1 /\ DOMAIN requests = {1}
<1>1. Len(requests) = 1 BY DEF HistoryInv
<1>2. DOMAIN requests = {1} BY <1>1 DEF RequestsTyped
<1> QED BY <1>1, <1>2

(* A chain has started. *)
Started(r) ==
    \/ /\ requests = <<>> /\ Len(requests') = 1 /\ requests'[1] = r
       /\ overlapped' = overlapped /\ unsaved' = unsaved
    \/ /\ requests # <<>> /\ overlapped' /\ unsaved'
       /\ \A i \in DOMAIN requests' : ~requests'[i].alone

LEMMA StartProps ==
    ASSUME RequestsTyped, NEW r \in RequestSet, Start(r), overlapped \in BOOLEAN, unsaved \in BOOLEAN
    PROVE  /\ RequestsTyped' /\ Started(r)
           /\ \A i \in DOMAIN requests' :
                 \/ requests'[i].kind = r.kind /\ requests'[i].stage = r.stage
                 \/ \E j \in DOMAIN requests : /\ requests'[i].kind = requests[j].kind
                                               /\ requests'[i].stage = requests[j].stage
<1>1. PICK n \in Nat : n = Len(requests) /\ DOMAIN requests = 1..n BY DEF RequestsTyped
<1>2. CASE requests = <<>>
  <2>1. requests' = <<r>> BY <1>2 DEF Start
  <2>2. RequestsTyped' BY <2>1 DEF RequestsTyped
  <2>3. Len(requests') = 1 /\ DOMAIN requests' = {1} /\ requests'[1] = r BY <2>1
  <2>4. overlapped' = overlapped /\ unsaved' = unsaved BY <1>2 DEF Start
  <2> QED BY <1>2, <2>2, <2>3, <2>4 DEF Started
<1>3. CASE requests # <<>>
  <2>1. PICK all : all = Append(requests, r) OBVIOUS
  <2>2. all \in Seq(RequestSet) /\ Len(all) = n + 1 BY <1>1, <2>1 DEF RequestsTyped
  <2>3. requests' = [i \in 1..(n + 1) |-> [all[i] EXCEPT !.alone = FALSE]]
    BY <1>1, <1>3, <2>1 DEF Start
  <2>4. ASSUME NEW i \in 1..(n + 1)
        PROVE  /\ requests'[i] \in RequestSet /\ requests'[i].alone = FALSE
               /\ requests'[i].kind = all[i].kind /\ requests'[i].stage = all[i].stage
    <3>1. all[i] \in RequestSet BY <2>2
    <3>2. PICK x \in RequestSet : x = all[i] BY <3>1
    <3>3. PICK y : y = [x EXCEPT !.alone = FALSE] OBVIOUS
    <3>4. y \in RequestSet /\ y.alone = FALSE /\ y.kind = x.kind /\ y.stage = x.stage
      BY <3>3 DEF RequestSet
    <3>5. requests'[i] = y BY <2>3, <3>2, <3>3
    <3> QED BY <3>2, <3>4, <3>5
  <2>5. requests' \in Seq(RequestSet) /\ DOMAIN requests' = 1..(n + 1)
    <3>1. PICK q : q = requests' OBVIOUS
    <3>2. q = [i \in 1..(n + 1) |-> [all[i] EXCEPT !.alone = FALSE]] BY <2>3, <3>1
    <3>3. \A i \in 1..(n + 1) : q[i] \in RequestSet BY <2>4, <3>1
    <3>a. q = [i \in 1..(n + 1) |-> q[i]] /\ DOMAIN q = 1..(n + 1) BY <3>2
    <3>b. q \in [1..(n + 1) -> RequestSet] BY <3>3, <3>a
    <3>4. q \in Seq(RequestSet) /\ DOMAIN q = 1..(n + 1) BY <3>a, <3>b
    <3> QED BY <3>1, <3>4
  <2>6. overlapped' /\ unsaved' BY <1>3 DEF Start
  <2>7. Started(r) BY <1>3, <2>4, <2>5, <2>6 DEF Started
  <2>8. ASSUME NEW i \in 1..(n + 1)
        PROVE  \/ all[i] = r
               \/ \E j \in DOMAIN requests : all[i] = requests[j]
    BY <1>1, <2>1 DEF RequestsTyped
  <2> QED BY <2>4, <2>5, <2>7, <2>8 DEF RequestsTyped
<1> QED BY <1>2, <1>3

(* The step of one chain. *)
Advanced(i, stage, doc) ==
    /\ DOMAIN requests' = DOMAIN requests /\ Len(requests') = Len(requests)
    /\ requests'[i].stage = stage /\ requests'[i].data = doc
    /\ \A j \in DOMAIN requests : /\ SameChain(requests'[j], requests[j])
                                  /\ requests'[j].alone = requests[j].alone
                                  /\ j # i => requests'[j] = requests[j]

LEMMA AdvanceProps ==
    ASSUME RequestsTyped, NEW i \in DOMAIN requests, NEW stage \in {"sent", "got", "post"},
           NEW doc \in Document,
           requests' = [requests EXCEPT ![i].stage = stage, ![i].data = doc]
    PROVE  RequestsTyped' /\ Advanced(i, stage, doc)
<1>1. PICK n \in Nat : n = Len(requests) /\ DOMAIN requests = 1..n BY DEF RequestsTyped
<1>2. PICK q : q = requests' OBVIOUS
<1>3. PICK x \in RequestSet : x = requests[i] BY <1>1 DEF RequestsTyped
<1>4. PICK y : y = [x EXCEPT !.stage = stage, !.data = doc] OBVIOUS
<1>5. /\ y \in RequestSet /\ y.stage = stage /\ y.data = doc /\ SameChain(y, x)
      /\ y.alone = x.alone
  BY <1>4 DEF RequestSet, SameChain
<1>6. q = [j \in 1..n |-> IF j = i THEN y ELSE requests[j]] BY <1>1, <1>2, <1>3, <1>4
<1>7. \A j \in 1..n : requests[j] \in RequestSet BY <1>1 DEF RequestsTyped
<1>8. q \in Seq(RequestSet) /\ DOMAIN q = 1..n /\ Len(q) = n BY <1>5, <1>6, <1>7
<1>9. q[i] = y /\ \A j \in 1..n : j # i => q[j] = requests[j] BY <1>1, <1>6
<1>10. \A j \in 1..n : SameChain(q[j], requests[j]) /\ q[j].alone = requests[j].alone
  BY <1>3, <1>5, <1>9 DEF SameChain
<1>11. RequestsTyped' BY <1>2, <1>8 DEF RequestsTyped
<1> QED BY <1>1, <1>2, <1>5, <1>8, <1>9, <1>10, <1>11 DEF Advanced

LEMMA EndProps ==
    ASSUME RequestsTyped, HistoryInv, NEW i \in DOMAIN requests, requests' = RemoveAt(requests, i)
    PROVE  /\ RequestsTyped' /\ Len(requests') = Len(requests) - 1
           /\ DOMAIN requests' = 1..(Len(requests) - 1)
           /\ Len(requests) = 1 => requests' = <<>>
           /\ \A p \in DOMAIN requests' :
                 ~requests'[p].alone /\ \E j \in DOMAIN requests : requests'[p] = requests[j]
<1>1. PICK n \in Nat : n = Len(requests) /\ DOMAIN requests = 1..n BY DEF RequestsTyped
<1>2. PICK q : q = requests' OBVIOUS
<1>3. /\ q \in Seq(RequestSet) /\ Len(q) = n - 1
      /\ \A p \in 1..(n - 1) : q[p] = IF p < i THEN requests[p] ELSE requests[p + 1]
  BY <1>1, <1>2, Without DEF RequestsTyped
<1>4. DOMAIN q = 1..(n - 1) BY <1>3
<1>5. \A p \in 1..(n - 1) : \E j \in 1..n : q[p] = requests[j] BY <1>1, <1>3
<1>6. n = 1 => q = <<>> BY <1>3
<1>7. ASSUME NEW p \in 1..(n - 1) PROVE ~q[p].alone
  <2>1. PICK j \in 1..n : q[p] = requests[j] BY <1>5
  <2>2. n # 1 OBVIOUS
  <2> QED BY <1>1, <2>1, <2>2 DEF HistoryInv
<1> QED BY <1>1, <1>2, <1>3, <1>4, <1>5, <1>6, <1>7 DEF RequestsTyped

(* What is in flight after the page was opened again. *)
Reopened ==
    \/ Len(requests') = 1 /\ requests'[1] = readJSON
    \/ /\ requests # <<>>
       /\ \A i \in DOMAIN requests' :
             /\ ~requests'[i].alone
             /\ requests'[i].stage = "post" \/ requests'[i].kind = "load"

LEMMA ReadTyped ==
    ASSUME NEW kind \in {"load", "write", "submit", "copy"}, NEW a \in Nat, NEW b \in Nat,
           NEW from \in {"none", "sender", "receiver"}
    PROVE  /\ Request(kind, a, b, from) \in RequestSet
           /\ Request(kind, a, b, from).kind = kind /\ Request(kind, a, b, from).stage = "sent"
           /\ Request(kind, a, b, from).mSend = a /\ Request(kind, a, b, from).mRec = b
           /\ Request(kind, a, b, from).alone
<1>1. <<>> \in Document BY DocumentIs
<1> QED BY <1>1 DEF Request, RequestSet

LEMMA ReloadProps ==
    ASSUME RequestsTyped, Reload
    PROVE  RequestsTyped' /\ Reopened
<1>1. PICK n \in Nat : n = Len(requests) /\ DOMAIN requests = 1..n BY DEF RequestsTyped
<1>2. PICK arriving \in SUBSET {i \in DOMAIN requests : requests[i].stage = "post"} :
        requests' = Flatten([i \in DOMAIN requests |->
                        IF i \in arriving THEN <<[requests[i] EXCEPT !.alone = FALSE]>> ELSE <<>>])
                    \o <<[readJSON EXCEPT !.alone = (arriving = {})]>>
  BY DEF Reload
<1>3. PICK old : old = [i \in 1..n |-> [requests[i] EXCEPT !.alone = FALSE]] OBVIOUS
<1>4. \A i \in 1..n : /\ old[i] \in RequestSet /\ old[i].alone = FALSE
                      /\ old[i].stage = requests[i].stage
  <2> SUFFICES ASSUME NEW i \in 1..n
               PROVE  /\ old[i] \in RequestSet /\ old[i].alone = FALSE
                      /\ old[i].stage = requests[i].stage
    OBVIOUS
  <2>1. PICK x \in RequestSet : x = requests[i] BY <1>1 DEF RequestsTyped
  <2>2. PICK y : y = [x EXCEPT !.alone = FALSE] OBVIOUS
  <2>3. y \in RequestSet /\ y.alone = FALSE /\ y.stage = x.stage BY <2>2 DEF RequestSet
  <2>4. old[i] = y BY <1>3, <2>1, <2>2
  <2> QED BY <2>1, <2>3, <2>4
<1>5. PICK ss : ss = [i \in 1..n |-> IF i \in arriving THEN <<old[i]>> ELSE <<>>] OBVIOUS
<1>6. \A i \in 1..n : ss[i] \in Seq(RequestSet) BY <1>4, <1>5
<1>7. ss \in Seq(Seq(RequestSet)) /\ Len(ss) = n
  <2>1. ss = [i \in 1..n |-> ss[i]] /\ DOMAIN ss = 1..n BY <1>5
  <2>2. ss \in [1..n -> Seq(RequestSet)] BY <1>6, <2>1
  <2> QED BY <2>1, <2>2
<1>8. PICK F \in Seq(RequestSet) :
          F = Flatten(ss) /\ \A x : In(x, F) <=> \E i \in 1..n : In(x, ss[i])
  BY <1>7, FlatElements
<1>9. PICK last : last = [readJSON EXCEPT !.alone = (arriving = {})] OBVIOUS
<1>10. last \in RequestSet /\ last.alone = (arriving = {}) /\ last.kind = "load"
  <2>1. PICK x \in RequestSet : x = readJSON /\ x.kind = "load" BY ReadTyped DEF readJSON
  <2>2. PICK b \in BOOLEAN : b = (arriving = {}) OBVIOUS
  <2>3. last = [x EXCEPT !.alone = b] BY <1>9, <2>1, <2>2
  <2>4. last \in RequestSet /\ last.alone = b /\ last.kind = x.kind BY <2>3 DEF RequestSet
  <2> QED BY <2>1, <2>2, <2>4
<1>11. requests' = F \o <<last>>
  <2>1. ss = [i \in DOMAIN requests |->
                 IF i \in arriving THEN <<[requests[i] EXCEPT !.alone = FALSE]>> ELSE <<>>]
    BY <1>1, <1>3, <1>5
  <2> QED BY <1>2, <1>8, <1>9, <2>1
<1>12. PICK q : q = F \o <<last>> OBVIOUS
<1>13. q \in Seq(RequestSet) /\ Len(q) = Len(F) + 1 /\ DOMAIN q = 1..(Len(F) + 1)
  <2>0. last \in RequestSet BY <1>10, Zenon
  <2>a. <<last>> \in Seq(RequestSet) BY <2>0
  <2>1. PICK b \in Seq(RequestSet) : b = <<last>> BY <2>a, Zenon
  <2>2. q \in Seq(RequestSet) /\ Len(q) = Len(F) + Len(b) BY <1>12, <2>1, Cat, Zenon
  <2> QED BY <2>1, <2>2
<1>14. \A i \in 1..(Len(F) + 1) : q[i] = last \/ In(q[i], F) BY <1>12 DEF In
<1>15. CASE arriving = {}
  <2>1. \A i \in 1..n : Len(ss[i]) = 0 BY <1>5, <1>15
  <2>2. \A x : ~In(x, F) BY <1>8, <2>1 DEF In
  <2>3. Len(F) = 0
    <3>1. Len(F) \in Nat OBVIOUS
    <3>2. Len(F) # 0 => In(F[1], F) BY <3>1 DEF In
    <3> QED BY <2>2, <3>2
  <2>4. Len(q) = 1 /\ q[1] = last BY <1>13, <1>14, <2>2, <2>3
  <2>5. last = readJSON
    <3>1. readJSON.alone = TRUE BY DEF readJSON, Request
    <3>2. PICK x \in RequestSet : x = readJSON BY ReadTyped DEF readJSON
    <3>3. last = [x EXCEPT !.alone = TRUE] BY <1>9, <1>15, <3>2
    <3> QED BY <3>1, <3>2, <3>3 DEF RequestSet
  <2> QED BY <1>11, <1>12, <1>13, <2>4, <2>5 DEF RequestsTyped, Reopened
<1>16. CASE arriving # {}
  <2>1. requests # <<>> BY <1>2, <1>16
  <2>2. ASSUME NEW x, In(x, F) PROVE x.alone = FALSE /\ x.stage = "post"
    <3>1. PICK i \in 1..n : In(x, ss[i]) BY <1>8, <2>2
    <3>2. i \in arriving /\ x = old[i] BY <1>5, <3>1 DEF In
    <3>3. requests[i].stage = "post" BY <1>2, <3>2
    <3> QED BY <1>4, <3>2, <3>3
  <2>3. last.alone = FALSE BY <1>10, <1>16
  <2>4. \A i \in DOMAIN q : ~q[i].alone /\ (q[i].stage = "post" \/ q[i].kind = "load")
    BY <1>10, <1>13, <1>14, <2>2, <2>3
  <2> QED BY <1>11, <1>12, <1>13, <2>1, <2>4 DEF RequestsTyped, Reopened
<1> QED BY <1>15, <1>16

LEMMA LenOne ==
    ASSUME NEW S, NEW q \in Seq(S), Len(q) = 1
    PROVE  DOMAIN q = {1} /\ q # <<>>
<1>1. DOMAIN q = 1..1 OBVIOUS
<1>2. 1..1 = {1} OBVIOUS
<1>3. q # <<>> BY <1>1
<1> QED BY <1>1, <1>2, <1>3

(* What is in flight is this request and nothing else. *)
Only(r) == Len(requests') = 1 /\ requests' # <<>> /\ requests'[1] = r

LEMMA StartHistory ==
    ASSUME RequestsTyped, HistoryInv, overlapped \in BOOLEAN, unsaved \in BOOLEAN,
           NEW r \in RequestSet, r.alone, r.kind # "load", r.stage = "sent", Start(r), ~form'.open
    PROVE  /\ HistoryInv' /\ AloneInv' /\ overlapped' \in BOOLEAN /\ unsaved' \in BOOLEAN
           /\ ~overlapped' => ~overlapped /\ requests = <<>> /\ Only(r)
           /\ ~unsaved' => ~unsaved /\ requests = <<>> /\ Only(r)
<1>1. RequestsTyped' /\ Started(r) BY StartProps
<1>2. CASE /\ requests = <<>> /\ Len(requests') = 1 /\ requests'[1] = r
           /\ overlapped' = overlapped /\ unsaved' = unsaved
  <2>1. DOMAIN requests' = {1} /\ requests' # <<>>
    <3>1. PICK q \in Seq(RequestSet) : q = requests' BY <1>1 DEF RequestsTyped
    <3>2. Len(q) = 1 BY <1>2, <3>1
    <3>3. DOMAIN q = {1} /\ q # <<>> BY <3>2, LenOne
    <3> QED BY <3>1, <3>3
  <2>2. HistoryInv' BY <1>2, <2>1 DEF HistoryInv
  <2>3. AloneInv' BY <1>2, <2>1 DEF AloneInv, ChainInv
  <2> QED BY <1>2, <2>1, <2>2, <2>3 DEF Only
<1>3. CASE /\ requests # <<>> /\ overlapped' /\ unsaved'
           /\ \A i \in DOMAIN requests' : ~requests'[i].alone
  <2>1. HistoryInv' BY <1>3 DEF HistoryInv
  <2>2. AloneInv' BY <1>3 DEF AloneInv
  <2>3. overlapped' \in BOOLEAN /\ unsaved' \in BOOLEAN BY DEF Start
  <2> QED BY <1>3, <2>1, <2>2, <2>3
<1> QED BY <1>1, <1>2, <1>3 DEF Started

LEMMA AdvanceHistory ==
    ASSUME RequestsTyped, HistoryInv, NEW i, NEW stage, NEW doc, Advanced(i, stage, doc),
           requests # <<>>, UNCHANGED <<form, overlapped, unsaved>>
    PROVE  HistoryInv'
<1>1. form' = form /\ overlapped' = overlapped /\ unsaved' = unsaved OBVIOUS
<1>2. \A j \in DOMAIN requests' :
          IF requests'[j].alone THEN Len(requests') = 1 ELSE overlapped' /\ unsaved'
  <2> SUFFICES ASSUME NEW j \in DOMAIN requests'
               PROVE  IF requests'[j].alone THEN Len(requests') = 1 ELSE overlapped' /\ unsaved'
    OBVIOUS
  <2>1. j \in DOMAIN requests /\ requests'[j].alone = requests[j].alone
        /\ Len(requests') = Len(requests)
    BY DEF Advanced
  <2>2. IF requests[j].alone THEN Len(requests) = 1 ELSE overlapped /\ unsaved
    BY <2>1 DEF HistoryInv
  <2> QED BY <1>1, <2>1, <2>2
<1>3. unsaved' => overlapped' BY <1>1 DEF HistoryInv
<1>4. ~(form'.open /\ ~overlapped') BY <1>1 DEF HistoryInv
<1> QED BY <1>2, <1>3, <1>4 DEF HistoryInv

LEMMA EndHistory ==
    ASSUME RequestsTyped, HistoryInv, overlapped \in BOOLEAN, unsaved \in BOOLEAN,
           NEW i \in DOMAIN requests, requests' = RemoveAt(requests, i),
           UNCHANGED <<form, overlapped>>, unsaved' \in BOOLEAN, unsaved' => unsaved,
           unsaved /\ ~unsaved' => Len(requests) = 1
    PROVE  HistoryInv' /\ AloneInv'
<1>1. form' = form /\ overlapped' = overlapped OBVIOUS
<1>2. /\ RequestsTyped' /\ (Len(requests) = 1 => requests' = <<>>)
      /\ \A p \in DOMAIN requests' :
            ~requests'[p].alone /\ \E j \in DOMAIN requests : requests'[p] = requests[j]
  BY EndProps
<1>3. AloneInv' BY <1>2 DEF AloneInv
<1>4. ASSUME NEW p \in DOMAIN requests'
      PROVE  IF requests'[p].alone THEN Len(requests') = 1 ELSE overlapped' /\ unsaved'
  <2>1. ~requests'[p].alone BY <1>2
  <2>2. PICK j \in DOMAIN requests : requests'[p] = requests[j] BY <1>2
  <2>3. overlapped /\ unsaved BY <2>1, <2>2 DEF HistoryInv
  <2>4. Len(requests) # 1
    <3>1. Len(requests) = 1 => DOMAIN requests' = {} BY <1>2
    <3> QED BY <3>1
  <2> QED BY <1>1, <2>1, <2>3, <2>4
<1>5. unsaved' => overlapped' BY <1>1 DEF HistoryInv
<1>6. ~(form'.open /\ ~overlapped')
  <2>1. requests # <<>> BY DEF RequestsTyped
  <2> QED BY <1>1, <2>1 DEF HistoryInv
<1>7. HistoryInv' BY <1>4, <1>5, <1>6 DEF HistoryInv
<1> QED BY <1>3, <1>7

-----------------------------------------------------------------------------
(***************************************************************************)
(* The operations that add modules or connectors and save.                 *)
(***************************************************************************)

(* Modules keep their names and ports; new ones get the next ports. *)
Grew(mods, more, port, next) ==
    /\ more \in Seq(ModuleSet) /\ Len(mods) =< Len(more) /\ port \in Nat
    /\ \A m \in 1..Len(mods) : more[m].name = mods[m].name /\ more[m].port = mods[m].port
    /\ \A m \in (Len(mods) + 1)..Len(more) : more[m].port = port + (m - Len(mods)) - 1
    /\ next = port + (Len(more) - Len(mods))

LEMMA GrewProps ==
    ASSUME NEW mods \in Seq(ModuleSet), NEW more, NEW port, NEW next, Grew(mods, more, port, next),
           NEW doc
    PROVE  /\ next \in Nat
           /\ OnCanvas(mods, doc) => OnCanvas(more, doc)
           /\ PortsDiffer(mods) /\ Below(mods, port) => PortsDiffer(more) /\ Below(more, next)
           /\ DistinctNames(more) => DistinctNames(mods)
<1>1. PICK n \in Nat : n = Len(mods) /\ DOMAIN mods = 1..n OBVIOUS
<1>2. PICK k \in Nat : k = Len(more) /\ DOMAIN more = 1..k BY DEF Grew
<1>3. /\ n =< k /\ port \in Nat /\ next = port + (k - n)
      /\ \A m \in 1..n : more[m].name = mods[m].name /\ more[m].port = mods[m].port
      /\ \A m \in (n + 1)..k : more[m].port = port + (m - n) - 1
  BY <1>1, <1>2 DEF Grew
<1>4. next \in Nat BY <1>3
<1>5. ASSUME OnCanvas(mods, doc) PROVE OnCanvas(more, doc)
  <2>1. \A m \in 1..n : m \in 1..k BY <1>3
  <2> QED BY <1>1, <1>2, <1>3, <1>5, <2>1 DEF OnCanvas
<1>6. ASSUME PortsDiffer(mods), Below(mods, port) PROVE PortsDiffer(more) /\ Below(more, next)
  <2>0. \A m \in 1..n : mods[m].port \in Nat
    <3>1. \A m \in 1..n : mods[m] \in ModuleSet BY <1>1
    <3> QED BY <3>1 DEF ModuleSet
  <2>1. \A m \in 1..k : /\ m \in 1..n => more[m].port < port
                        /\ m \notin 1..n => more[m].port = port + (m - n) - 1
    BY <1>1, <1>3, <1>6 DEF Below
  <2>2. \A i, j \in 1..n : more[i].port = more[j].port => i = j
    BY <1>1, <1>3, <1>6 DEF PortsDiffer
  <2>3. PICK p : p = [m \in 1..k |-> more[m].port] OBVIOUS
  <2>4. \A m \in 1..k : /\ p[m] \in Nat /\ (m \in 1..n => p[m] < port)
                        /\ (m \notin 1..n => p[m] = port + (m - n) - 1)
    BY <1>3, <2>0, <2>1, <2>3
  <2>a. \A i \in 1..n : i \in 1..k /\ p[i] = more[i].port BY <1>3, <2>3
  <2>5. \A i, j \in 1..n : p[i] = p[j] => i = j BY <2>2, <2>a
  <2>6. \A i, j \in 1..k : p[i] = p[j] => i = j BY <1>3, <2>4, <2>5
  <2>7. \A m \in 1..k : p[m] < next BY <1>3, <2>4
  <2> QED BY <1>2, <2>3, <2>6, <2>7 DEF PortsDiffer, Below
<1>7. ASSUME DistinctNames(more) PROVE DistinctNames(mods)
  <2>1. \A m \in 1..n : m \in 1..k BY <1>3
  <2> QED BY <1>1, <1>2, <1>3, <1>7, <2>1 DEF DistinctNames
<1> QED BY <1>4, <1>5, <1>6, <1>7

LEMMA LastNumberInt ==
    ASSUME moduleArray \in Seq(ModuleSet), NEW base
    PROVE  LastNumber(base) \in Int
<1>1. PICK n \in Nat : n = Len(moduleArray) /\ DOMAIN moduleArray = 1..n OBVIOUS
<1>2. \A i \in 1..n : moduleArray[i].name[2] \in Int
  <2>1. \A i \in 1..n : moduleArray[i] \in ModuleSet BY <1>1
  <2>2. \A i \in 1..n : moduleArray[i].name \in Bases \X (Plain..99)
    BY <2>1 DEF ModuleSet, NameSet
  <2>3. ASSUME NEW x \in Bases \X (Plain..99) PROVE x[2] \in Int
    <3>1. x[2] \in Plain..99 OBVIOUS
    <3>2. Plain \in Int BY DEF Plain
    <3> QED BY <3>1, <3>2
  <2> QED BY <2>2, <2>3
<1>3. PICK U : U = {moduleArray[i].name[2] : i \in {j \in DOMAIN moduleArray :
             moduleArray[j].name[1] = base /\ base \notin MixedCase}} \cup {0}
  OBVIOUS
<1>4. PICK f : f = [i \in 1..(n + 1) |-> IF i =< n THEN moduleArray[i].name[2] ELSE 0] OBVIOUS
<1>5. \A i \in 1..(n + 1) : f[i] \in Int BY <1>2, <1>4
<1>6. ASSUME NEW x \in U PROVE \E i \in 1..(n + 1) : f[i] = x
  <2>1. CASE x = 0
    <3>1. f[n + 1] = 0 /\ n + 1 \in 1..(n + 1) BY <1>4
    <3> QED BY <2>1, <3>1
  <2>2. CASE x # 0
    <3>1. PICK i \in 1..n : x = moduleArray[i].name[2] BY <1>1, <1>3, <2>2
    <3>2. i \in 1..(n + 1) /\ f[i] = x BY <1>4, <3>1
    <3> QED BY <3>2
  <2> QED BY <2>1, <2>2
<1>7. Among(U, f, n + 1) BY <1>5, <1>6 DEF Among
<1>8. IsMax(MaxOr(U, 0), U, 0) BY <1>7, Greatest
<1>9. MaxOr(U, 0) \in U \cup {0} BY <1>8 DEF IsMax
<1>10. MaxOr(U, 0) \in Int BY <1>5, <1>6, <1>9
<1> QED BY <1>3, <1>10 DEF LastNumber

LEMMA NewModules ==
    ASSUME NEW mods \in Seq(ModuleSet), NEW port \in Nat, NEW new \in Seq(ModuleSet),
           \A i \in 1..Len(new) : new[i].port = port + i - 1
    PROVE  Grew(mods, mods \o new, port, port + Len(new))
<1>1. PICK n \in Nat : n = Len(mods) OBVIOUS
<1>2. PICK k \in Nat : k = Len(new) OBVIOUS
<1>3. PICK more : more = mods \o new OBVIOUS
<1>4. more \in Seq(ModuleSet) /\ Len(more) = Len(mods) + Len(new) BY <1>3, Cat, Zenon
<1>5. \A p \in 1..n : more[p] = mods[p] BY <1>1, <1>3, Cat
<1>6. \A p \in 1..k : more[n + p] = new[p] BY <1>1, <1>2, <1>3, Cat
<1>7. Len(more) = n + k BY <1>1, <1>2, <1>4
<1>8. ASSUME NEW m \in (n + 1)..(n + k) PROVE more[m].port = port + (m - n) - 1
  <2>1. PICK p \in 1..k : m = n + p
    <3>1. m - n \in 1..k /\ m = n + (m - n) OBVIOUS
    <3> QED BY <3>1
  <2>2. more[m] = new[p] BY <1>6, <2>1
  <2>3. new[p].port = port + p - 1 BY <1>2
  <2>4. m - n = p BY <2>1
  <2> QED BY <2>2, <2>3, <2>4
<1>9. port + k = port + (n + k - n) OBVIOUS
<1>10. Grew(mods, more, port, port + k)
  <2>1. n =< n + k OBVIOUS
  <2>2. \A m \in 1..n : more[m].name = mods[m].name /\ more[m].port = mods[m].port BY <1>5
  <2>3. PICK next : next = port + k OBVIOUS
  <2>4. next = port + (n + k - n) BY <1>9, <2>3
  <2>a. \A m \in (n + 1)..(n + k) : more[m].port = port + (m - n) - 1 BY <1>8
  <2>b. \A m \in (Len(mods) + 1)..Len(more) : more[m].port = port + (m - Len(mods)) - 1
    BY <1>1, <1>7, <2>a, Zenon
  <2>c. next = port + (Len(more) - Len(mods)) BY <1>1, <1>7, <2>4
  <2>d. \A m \in 1..Len(mods) : more[m].name = mods[m].name /\ more[m].port = mods[m].port
    BY <1>1, <2>2
  <2>e. Len(mods) =< Len(more) BY <1>1, <1>7, <2>1
  <2>5. Grew(mods, more, port, next) BY <1>4, <2>b, <2>c, <2>d, <2>e DEF Grew
  <2> QED BY <2>3, <2>5
<1> QED BY <1>2, <1>3, <1>10

LEMMA MoreConnectors ==
    ASSUME NEW mods \in Seq(ModuleSet), NEW port \in Nat, NEW m \in DOMAIN mods
    PROVE  /\ Grew(mods, mods, port, port)
           /\ Grew(mods, [mods EXCEPT ![m].nSend = @ + 1], port, port)
           /\ Grew(mods, [mods EXCEPT ![m].nReceive = @ + 1], port, port)
<1>1. PICK n \in Nat : n = Len(mods) /\ DOMAIN mods = 1..n OBVIOUS
<1>2. \A more \in Seq(ModuleSet) :
         Len(more) = n /\ (\A i \in 1..n : more[i].name = mods[i].name /\ more[i].port = mods[i].port)
            => Grew(mods, more, port, port)
  BY <1>1 DEF Grew
<1>3. PICK x \in ModuleSet : x = mods[m] BY <1>1
<1>4. ASSUME NEW y \in ModuleSet, y.name = x.name, y.port = x.port
      PROVE  Grew(mods, [mods EXCEPT ![m] = y], port, port)
  <2>1. PICK more : more = [mods EXCEPT ![m] = y] OBVIOUS
  <2>2. more = [i \in 1..n |-> IF i = m THEN y ELSE mods[i]] BY <1>1, <2>1
  <2>3. more \in Seq(ModuleSet) /\ Len(more) = n BY <1>1, <2>2
  <2>4. \A i \in 1..n : more[i].name = mods[i].name /\ more[i].port = mods[i].port
    BY <1>3, <1>4, <2>2
  <2> QED BY <1>2, <2>1, <2>3, <2>4
<1>5. /\ [x EXCEPT !.nSend = @ + 1] \in ModuleSet /\ [x EXCEPT !.nReceive = @ + 1] \in ModuleSet
      /\ [x EXCEPT !.nSend = @ + 1].name = x.name /\ [x EXCEPT !.nSend = @ + 1].port = x.port
      /\ [x EXCEPT !.nReceive = @ + 1].name = x.name /\ [x EXCEPT !.nReceive = @ + 1].port = x.port
  <2>1. PICK name \in NameSet, port2 \in Nat, s \in Nat, t \in Nat :
            x = [name |-> name, port |-> port2, nSend |-> s, nReceive |-> t]
    BY DEF ModuleSet
  <2>2. /\ [x EXCEPT !.nSend = @ + 1]
              = [name |-> name, port |-> port2, nSend |-> s + 1, nReceive |-> t]
        /\ [x EXCEPT !.nReceive = @ + 1]
              = [name |-> name, port |-> port2, nSend |-> s, nReceive |-> t + 1]
    BY <2>1
  <2>3. s + 1 \in Nat /\ t + 1 \in Nat OBVIOUS
  <2> QED BY <2>1, <2>2, <2>3 DEF ModuleSet
<1>6. /\ [mods EXCEPT ![m].nSend = @ + 1] = [mods EXCEPT ![m] = [x EXCEPT !.nSend = @ + 1]]
      /\ [mods EXCEPT ![m].nReceive = @ + 1] = [mods EXCEPT ![m] = [x EXCEPT !.nReceive = @ + 1]]
  BY <1>3
<1>7. Grew(mods, mods, port, port) BY <1>1, <1>2
<1>8. Grew(mods, [mods EXCEPT ![m] = [x EXCEPT !.nSend = @ + 1]], port, port) BY <1>4, <1>5
<1>9. Grew(mods, [mods EXCEPT ![m] = [x EXCEPT !.nReceive = @ + 1]], port, port) BY <1>4, <1>5
<1> QED BY <1>6, <1>7, <1>8, <1>9

(* The four operations that end with writeJSON. *)
Writing ==
    /\ ~form.open /\ Grew(moduleArray, moduleArray', PORTMODULE, PORTMODULE')
    /\ writeJSON
    /\ UNCHANGED <<sendLists, receiveLists, overallConnections, TEMPORARYINFO,
                   form, PORTCONNECTION, file>>

LEMMA SubmitModuleWrites ==
    ASSUME Typed, NEW base \in Bases, submitNewModule(base)
    PROVE  Writing
<1>1. moduleArray \in Seq(ModuleSet) /\ PORTMODULE \in Nat BY DEF Typed, PageTyped
<1>2. PICK x : x = Module(<<base, Plain>>, PORTMODULE) OBVIOUS
<1>3. x \in ModuleSet /\ x.port = PORTMODULE
  <2>1. <<base, Plain>> \in NameSet BY DEF NameSet, Plain
  <2>2. PICK name \in NameSet : name = <<base, Plain>> BY <2>1
  <2>3. x = [name |-> name, port |-> PORTMODULE, nSend |-> 0, nReceive |-> 0]
    BY <1>2, <2>2 DEF Module
  <2> QED BY <1>1, <2>3 DEF ModuleSet
<1>4. PICK new : new = <<x>> OBVIOUS
<1>5. new \in Seq(ModuleSet) /\ Len(new) = 1 /\ new[1] = x BY <1>3, <1>4
<1>6. \A i \in 1..Len(new) : new[i].port = PORTMODULE + i - 1 BY <1>1, <1>3, <1>5
<1>7. Grew(moduleArray, moduleArray \o new, PORTMODULE, PORTMODULE + 1)
  <2>1. Grew(moduleArray, moduleArray \o new, PORTMODULE, PORTMODULE + Len(new))
    BY <1>1, <1>5, <1>6, NewModules
  <2> QED BY <1>5, <2>1
<1>8. moduleArray' = moduleArray \o new
  <2>1. moduleArray' = Append(moduleArray, x) BY <1>2 DEF submitNewModule
  <2>2. Append(moduleArray, x) = moduleArray \o <<x>> BY <1>1, <1>3
  <2> QED BY <1>4, <2>1, <2>2
<1>9. PORTMODULE' = PORTMODULE + 1 BY DEF submitNewModule, portRange
<1>10. Grew(moduleArray, moduleArray', PORTMODULE, PORTMODULE') BY <1>7, <1>8, <1>9
<1> QED BY <1>10 DEF Writing, submitNewModule, Operation

LEMMA SubmitMultiWrites ==
    ASSUME Typed, NEW base \in Bases, NEW nb \in 1..2, submitNewMultiModules(base, nb)
    PROVE  Writing
<1>1. moduleArray \in Seq(ModuleSet) /\ PORTMODULE \in Nat BY DEF Typed, PageTyped
<1>2. PICK last \in Int : last = LastNumber(base) BY <1>1, LastNumberInt
<1>3. PICK new : new = [i \in 1..nb |-> Module(<<base, (last + i) % 100>>, PORTMODULE + i - 1)]
  OBVIOUS
<1>4. ASSUME NEW i \in 1..nb PROVE new[i] \in ModuleSet /\ new[i].port = PORTMODULE + i - 1
  <2>1. (last + i) % 100 \in Plain..99
    <3>1. last + i \in Int OBVIOUS
    <3>2. (last + i) % 100 \in 0..99 BY <3>1
    <3> QED BY <3>2 DEF Plain
  <2>2. <<base, (last + i) % 100>> \in NameSet BY <2>1 DEF NameSet
  <2>3. PICK name \in NameSet : name = <<base, (last + i) % 100>> BY <2>2
  <2>4. PICK port \in Nat : port = PORTMODULE + i - 1 BY <1>1
  <2>5. new[i] = [name |-> name, port |-> port, nSend |-> 0, nReceive |-> 0]
    BY <1>3, <2>3, <2>4 DEF Module
  <2> QED BY <2>4, <2>5 DEF ModuleSet
<1>5. new \in Seq(ModuleSet) /\ Len(new) = nb
  <2>1. new = [i \in 1..nb |-> new[i]] /\ DOMAIN new = 1..nb BY <1>3
  <2>2. new \in [1..nb -> ModuleSet] BY <1>4, <2>1
  <2> QED BY <2>1, <2>2
<1>6. \A i \in 1..Len(new) : new[i].port = PORTMODULE + i - 1 BY <1>4, <1>5
<1>7. Grew(moduleArray, moduleArray \o new, PORTMODULE, PORTMODULE + nb)
  <2>1. Grew(moduleArray, moduleArray \o new, PORTMODULE, PORTMODULE + Len(new))
    BY <1>1, <1>5, <1>6, NewModules
  <2> QED BY <1>5, <2>1
<1>8. moduleArray' = moduleArray \o new /\ PORTMODULE' = PORTMODULE + nb
  BY <1>2, <1>3 DEF submitNewMultiModules
<1>9. Grew(moduleArray, moduleArray', PORTMODULE, PORTMODULE') BY <1>7, <1>8
<1> QED BY <1>9 DEF Writing, submitNewMultiModules, Operation

LEMMA ConnectorWrites ==
    ASSUME Typed, NEW m \in DOMAIN moduleArray, makeSenderContainer(m) \/ makeReceiverContainer(m)
    PROVE  Writing
<1>1. moduleArray \in Seq(ModuleSet) /\ PORTMODULE \in Nat BY DEF Typed, PageTyped
<1>2. PORTMODULE' = PORTMODULE BY DEF makeSenderContainer, makeReceiverContainer
<1>3. /\ Grew(moduleArray, moduleArray, PORTMODULE, PORTMODULE)
      /\ Grew(moduleArray, [moduleArray EXCEPT ![m].nSend = @ + 1], PORTMODULE, PORTMODULE)
      /\ Grew(moduleArray, [moduleArray EXCEPT ![m].nReceive = @ + 1], PORTMODULE, PORTMODULE)
  BY <1>1, MoreConnectors
<1>4. moduleArray' \in {moduleArray, [moduleArray EXCEPT ![m].nSend = @ + 1],
                        [moduleArray EXCEPT ![m].nReceive = @ + 1]}
  BY DEF makeSenderContainer, makeReceiverContainer
<1>5. Grew(moduleArray, moduleArray', PORTMODULE, PORTMODULE') BY <1>2, <1>3, <1>4
<1> QED BY <1>5 DEF Writing, makeSenderContainer, makeReceiverContainer, Operation

LEMMA WritingStep ==
    ASSUME IInv, Writing
    PROVE  IInv'
<1>0. /\ PageTyped /\ RequestsTyped /\ LinkKnown /\ HistoryInv /\ AloneInv /\ SavedInv
      /\ PortsInv /\ LinesInv /\ ShowInv
  BY DEF IInv, Typed
<1>1. overlapped \in BOOLEAN /\ unsaved \in BOOLEAN BY <1>0 DEF PageTyped
<1>2. /\ sendLists' = sendLists /\ receiveLists' = receiveLists
      /\ overallConnections' = overallConnections /\ TEMPORARYINFO' = TEMPORARYINFO
      /\ form' = form /\ PORTCONNECTION' = PORTCONNECTION /\ file' = file /\ ~form.open
  BY DEF Writing
<1>3. PICK r \in RequestSet : /\ r = Request("write", 0, 0, "none")
                              /\ r.kind = "write" /\ r.stage = "sent" /\ r.alone
  BY ReadTyped
<1>4. Start(r) BY <1>3 DEF Writing, writeJSON
<1>5. /\ HistoryInv' /\ AloneInv' /\ overlapped' \in BOOLEAN /\ unsaved' \in BOOLEAN
      /\ ~overlapped' => ~overlapped /\ requests = <<>> /\ Only(r)
      /\ ~unsaved' => ~unsaved /\ requests = <<>> /\ Only(r)
  BY <1>0, <1>1, <1>2, <1>3, <1>4, StartHistory
<1>6. /\ RequestsTyped'
      /\ \A i \in DOMAIN requests' :
            \/ requests'[i].kind = r.kind /\ requests'[i].stage = r.stage
            \/ \E j \in DOMAIN requests : /\ requests'[i].kind = requests[j].kind
                                          /\ requests'[i].stage = requests[j].stage
  BY <1>0, <1>1, <1>4, StartProps
<1>7. moduleArray \in Seq(ModuleSet) BY <1>0 DEF PageTyped
<1>8. Grew(moduleArray, moduleArray', PORTMODULE, PORTMODULE') BY DEF Writing
<1>9. \A doc : /\ PORTMODULE' \in Nat
               /\ OnCanvas(moduleArray, doc) => OnCanvas(moduleArray', doc)
               /\ PortsDiffer(moduleArray) /\ Below(moduleArray, PORTMODULE)
                     => PortsDiffer(moduleArray') /\ Below(moduleArray', PORTMODULE')
               /\ DistinctNames(moduleArray') => DistinctNames(moduleArray)
  BY <1>7, <1>8, GrewProps
<1>10. Typed'
  <2>1. moduleArray' \in Seq(ModuleSet) BY <1>8 DEF Grew
  <2>2. PageTyped' BY <1>0, <1>2, <1>5, <1>9, <2>1 DEF PageTyped
  <2>3. LinkKnown' BY <1>0, <1>2, <1>3, <1>6 DEF LinkKnown
  <2> QED BY <1>6, <2>2, <2>3 DEF Typed
<1>11. SavedInv'
  <2>1. ~unsaved' => Saving' BY <1>3, <1>5 DEF Saving, Only
  <2> QED BY <2>1 DEF SavedInv
<1>12. ASSUME ~overlapped'
       PROVE  /\ ~overlapped /\ requests = <<>> /\ requests' # <<>> /\ requests'[1] = r
              /\ Latest' = file /\ Latest = file /\ ~Loading /\ ~Loading' /\ ~Linking /\ ~Linking'
  <2>1. ~overlapped /\ requests = <<>> /\ requests' # <<>> /\ requests'[1] = r
    BY <1>5, <1>12 DEF Only
  <2>2. Latest' = file /\ Latest = file BY <1>2, <1>3, <2>1 DEF Latest
  <2>3. ~Loading /\ ~Loading' BY <1>3, <2>1 DEF Loading
  <2>4. ~Linking /\ ~Linking' BY <1>2, <1>3, <2>1 DEF Linking, Submitting
  <2> QED BY <2>1, <2>2, <2>3, <2>4
<1>13. PortsInv'
  <2> SUFFICES ASSUME ~overlapped'
               PROVE  /\ PortsDiffer(Latest') /\ PortsDiffer(moduleArray')
                      /\ OnCanvas(moduleArray', Latest') /\ Below(moduleArray', PORTMODULE')
    BY DEF PortsInv
  <2>1. /\ PortsDiffer(file) /\ PortsDiffer(moduleArray) /\ OnCanvas(moduleArray, file)
        /\ Below(moduleArray, PORTMODULE)
    BY <1>0, <1>12 DEF PortsInv
  <2> QED BY <1>9, <1>12, <2>1
<1>14. LinesInv'
  <2>1. ASSUME ~overlapped' PROVE Agree(Lines)' /\ ~Linking' /\ requests'[1].kind # "copy"
    <3>1. Agree(Lines) BY <1>0, <1>12, <2>1 DEF LinesInv
    <3>2. Lines' = Lines BY <1>2 DEF Lines
    <3> QED BY <1>3, <1>12, <2>1, <3>1, <3>2
  <2> QED BY <2>1 DEF LinesInv
<1>15. ShowInv'
  <2> SUFFICES ASSUME ~overlapped', DistinctNames(moduleArray'), Apart(Drawn')
               PROVE  /\ DistinctNames(Latest') /\ Shown(moduleArray', Latest', Drawn')
                      /\ PortsUsed(Latest)'
    BY DEF ShowInv
  <2>1. Drawn' = Drawn BY <1>2, <1>12 DEF Drawn
  <2>2. DistinctNames(moduleArray) BY <1>9
  <2>3. DistinctNames(file) /\ Shown(moduleArray, file, Drawn) /\ PortsUsed(Latest)
    BY <1>0, <1>12, <2>1, <2>2 DEF ShowInv
  <2>4. OnCanvas(moduleArray, file) BY <1>0, <1>12 DEF PortsInv
  <2>5. SameAt(moduleArray, file, moduleArray', file)
    <3>1. file \in Document BY <1>0 DEF PageTyped
    <3>2. /\ moduleArray' \in Seq(ModuleSet) /\ Len(moduleArray) =< Len(moduleArray')
          /\ \A m \in 1..Len(moduleArray) : moduleArray'[m].name = moduleArray[m].name
      BY <1>8 DEF Grew
    <3> QED BY <1>7, <2>4, <3>1, <3>2, GrowthAt
  <2>6. Shown(moduleArray', file, Drawn) BY <2>3, <2>5, SameAtShown
  <2>7. PortsUsed(Latest)' BY <1>2, <1>12, <2>3 DEF PortsUsed
  <2> QED BY <1>12, <2>1, <2>3, <2>6, <2>7
<1> QED BY <1>5, <1>10, <1>11, <1>13, <1>14, <1>15 DEF IInv

-----------------------------------------------------------------------------
(***************************************************************************)
(* Links are drawn, submitted and cancelled.                               *)
(***************************************************************************)

LEMMA DrawableProps ==
    ASSUME NEW l \in Drawable
    PROVE  l \in AnyLink /\ moduleArray # <<>>
<1>1. l \in Link /\ {l.mSend, l.mReceive} \subseteq DOMAIN moduleArray BY DEF Drawable
<1>2. MaxModules \in Nat /\ MaxConnectors \in Nat BY CanvasAssumption DEF CanvasAssumption
<1>3. (1..MaxModules) \subseteq Nat /\ (0..MaxConnectors - 1) \subseteq Nat BY <1>2
<1>4. l \in AnyLink BY <1>1, <1>3 DEF Link, AnyLink
<1>5. moduleArray # <<>> BY <1>1
<1> QED BY <1>4, <1>5

LEMMA AgreeFields ==
    ASSUME NEW a, NEW b, Agree(b), a.sends = b.sends, a.receives = b.receives,
           a.overall = b.overall
    PROVE  Agree(a)
  BY DEF Agree

LEMMA ConnectProps ==
    ASSUME NEW l \in AnyLink, overallConnections \in Seq(AnyLink), connectLines(l)
    PROVE  /\ overallConnections' \in Seq(AnyLink)
           /\ ToSet(overallConnections') = ToSet(overallConnections) \cup {l}
           /\ Agree(Lines) => Agree(Lines')
           /\ Agree(Lines) /\ l \notin ToSet(overallConnections) =>
                 l \in DOMAIN sendLists' /\ sendLists'[l] = 1
<1>1. PICK lines : lines = Lines OBVIOUS
<1>2. PICK new : new = WithLink(lines, l) OBVIOUS
<1>3. lines.overall = overallConnections BY <1>1 DEF Lines
<1>4. sendLists' = new.sends /\ receiveLists' = new.receives /\ overallConnections' = new.overall
  BY <1>1, <1>2 DEF connectLines, LinesAre
<1>5. PICK next : next = Lines' OBVIOUS
<1>6. next.sends = new.sends /\ next.receives = new.receives /\ next.overall = new.overall
  BY <1>4, <1>5 DEF Lines
<1>7. /\ new.overall \in Seq(AnyLink) /\ ToSet(new.overall) = ToSet(lines.overall) \cup {l}
      /\ Agree(lines) => Agree(new)
      /\ Agree(lines) /\ l \notin ToSet(lines.overall) => new.sends[l] = 1
  BY <1>2, <1>3, AddLink
<1>8. Agree(lines) => Agree(next) BY <1>6, <1>7, AgreeFields
<1>9. Agree(lines) => DOMAIN new.sends = ToSet(new.overall) BY <1>7 DEF Agree
<1> QED BY <1>1, <1>3, <1>4, <1>5, <1>7, <1>8, <1>9

(* The link is drawn while the connection form has not been made. *)
LEMMA DrawLostStep ==
    ASSUME IInv, NEW l \in AnyLink, ~form.open, TEMPORARYINFO' = l,
           overlapped' = (overlapped \/ requests # <<>>),
           UNCHANGED <<moduleArray, sendLists, receiveLists, overallConnections, form,
                       PORTMODULE, PORTCONNECTION, requests, unsaved, file>>
    PROVE  IInv'
<1>0. /\ PageTyped /\ RequestsTyped /\ LinkKnown /\ HistoryInv /\ AloneInv /\ SavedInv
      /\ PortsInv /\ LinesInv /\ ShowInv
  BY DEF IInv, Typed
<1>1. /\ moduleArray' = moduleArray /\ sendLists' = sendLists /\ receiveLists' = receiveLists
      /\ overallConnections' = overallConnections /\ form' = form /\ PORTMODULE' = PORTMODULE
      /\ PORTCONNECTION' = PORTCONNECTION /\ requests' = requests /\ unsaved' = unsaved
      /\ file' = file /\ TEMPORARYINFO' = l
  OBVIOUS
<1>2. overlapped' \in BOOLEAN /\ (overlapped => overlapped')
      /\ (~overlapped' => ~overlapped /\ requests = <<>>)
  BY <1>0 DEF PageTyped
<1>3. Typed' BY <1>0, <1>1, <1>2 DEF Typed, PageTyped, RequestsTyped, LinkKnown
<1>4. HistoryInv' BY <1>0, <1>1, <1>2 DEF HistoryInv
<1>5. Lines' = Lines BY <1>1 DEF Lines
<1>6. AloneInv' BY <1>0, <1>1, <1>5 DEF AloneInv, ChainInv
<1>7. Latest' = Latest /\ Saving' = Saving /\ Loading' = Loading BY <1>1 DEF Latest, Saving, Loading
<1>8. SavedInv' BY <1>0, <1>1, <1>7 DEF SavedInv
<1>9. PortsInv' BY <1>0, <1>1, <1>2, <1>7 DEF PortsInv
<1>10. ~overlapped' => ~Linking /\ ~Linking' BY <1>1, <1>2 DEF Linking, Submitting
<1>11. LinesInv' BY <1>0, <1>1, <1>2, <1>5, <1>10 DEF LinesInv
<1>12. ~overlapped' => Drawn' = Drawn BY <1>1, <1>10 DEF Drawn
<1>13. ~overlapped' /\ PortsUsed(Latest) => PortsUsed(Latest)' BY <1>1, <1>7, <1>10 DEF PortsUsed
<1>14. ShowInv' BY <1>0, <1>1, <1>2, <1>7, <1>12, <1>13 DEF ShowInv
<1> QED BY <1>3, <1>4, <1>6, <1>8, <1>9, <1>11, <1>14 DEF IInv

LEMMA DrawNewStep ==
    ASSUME IInv, NEW l \in Drawable, ~form.open, checkConnection(l) = "new", TEMPORARYINFO' = l,
           callConnectForm, connectLines(l), UNCHANGED <<moduleArray, PORTMODULE, file>>
    PROVE  IInv'
<1>0. /\ PageTyped /\ RequestsTyped /\ LinkKnown /\ HistoryInv /\ AloneInv /\ SavedInv
      /\ PortsInv /\ LinesInv /\ ShowInv
  BY DEF IInv, Typed
<1>1. /\ moduleArray' = moduleArray /\ PORTMODULE' = PORTMODULE /\ file' = file
      /\ requests' = requests /\ unsaved' = unsaved /\ TEMPORARYINFO' = l
      /\ form' = [open |-> TRUE, value |-> [transport |-> "tcp", key |-> PORTCONNECTION]]
      /\ PORTCONNECTION' = PORTCONNECTION + 1
  BY DEF callConnectForm, portRange
<1>2. overlapped' \in BOOLEAN /\ (overlapped => overlapped')
      /\ (~overlapped' => ~overlapped /\ requests = <<>>)
  BY <1>0 DEF PageTyped, callConnectForm
<1>3. l \in AnyLink /\ moduleArray # <<>> BY DrawableProps
<1>4. /\ overallConnections \in Seq(AnyLink) /\ PORTCONNECTION \in Nat BY <1>0 DEF PageTyped
<1>5. /\ overallConnections' \in Seq(AnyLink)
      /\ ToSet(overallConnections') = ToSet(overallConnections) \cup {l}
      /\ Agree(Lines) => Agree(Lines')
      /\ Agree(Lines) /\ l \notin ToSet(overallConnections) =>
            l \in DOMAIN sendLists' /\ sendLists'[l] = 1
  BY <1>3, <1>4, ConnectProps
<1>6. Free(l, ToSet(overallConnections)) BY <1>4, CheckFinds
<1>7. l \notin ToSet(overallConnections) BY <1>6 DEF Free, SameSender
<1>8. form'.open /\ form'.value.transport = "tcp" /\ form'.value.key = PORTCONNECTION BY <1>1
<1>9. Typed'
  <2>1. form' \in [open : BOOLEAN, value : Value \cup {NoConn}]
    <3>1. [transport |-> "tcp", key |-> PORTCONNECTION] \in Value
      BY <1>4 DEF Value, Conn, Blank
    <3> QED BY <1>1, <3>1
  <2>2. PORTCONNECTION' \in Nat BY <1>1, <1>4
  <2>3. PageTyped' BY <1>0, <1>1, <1>2, <1>3, <1>5, <2>1, <2>2 DEF PageTyped
  <2>4. LinkKnown' BY <1>1, <1>3 DEF LinkKnown
  <2>5. RequestsTyped' BY <1>0, <1>1 DEF RequestsTyped
  <2> QED BY <2>3, <2>4, <2>5 DEF Typed
<1>10. HistoryInv' BY <1>0, <1>1, <1>2 DEF HistoryInv
<1>11. AloneInv'
  <2> SUFFICES ASSUME NEW i \in DOMAIN requests, requests[i].alone PROVE ChainInv(requests[i])'
    BY <1>1 DEF AloneInv
  <2>1. ChainInv(requests[i]) BY <1>0 DEF AloneInv
  <2>2. requests[i].kind # "load" BY <1>3, <2>1 DEF ChainInv
  <2> QED BY <1>1, <2>1, <2>2 DEF ChainInv
<1>12. Latest' = Latest /\ Saving' = Saving /\ Loading' = Loading BY <1>1 DEF Latest, Saving, Loading
<1>13. SavedInv' BY <1>0, <1>1, <1>12 DEF SavedInv
<1>14. PortsInv' BY <1>0, <1>1, <1>2, <1>12 DEF PortsInv
<1>15. ~overlapped' => ~Linking /\ ~Submitting' BY <1>1, <1>2 DEF Linking, Submitting
<1>16. Linking' BY <1>8 DEF Linking
<1>17. Drawn' = ToSet(overallConnections) BY <1>1, <1>5, <1>7, <1>16 DEF Drawn
<1>18. ~overlapped' => Drawn' = Drawn BY <1>15, <1>17 DEF Drawn
<1>19. LinesInv'
  <2> SUFFICES ASSUME ~overlapped' PROVE Agree(Lines)' /\ NewLink(TEMPORARYINFO)'
    BY <1>1, <1>2 DEF LinesInv
  <2>1. Agree(Lines) BY <1>0, <1>2 DEF LinesInv
  <2>2. Agree(Lines') /\ l \in DOMAIN sendLists' /\ sendLists'[l] = 1 BY <1>5, <1>7, <2>1
  <2>3. Free(l, Drawn') BY <1>6, <1>17
  <2>4. l \in Drawable' BY <1>1 DEF Drawable
  <2>5. form'.value.key < PORTCONNECTION' BY <1>1, <1>4, <1>8
  <2>6. NewLink(TEMPORARYINFO)' BY <1>1, <1>15, <2>2, <2>3, <2>4, <2>5 DEF NewLink
  <2> QED BY <2>2, <2>6
<1>20. ~overlapped' /\ PortsUsed(Latest) => PortsUsed(Latest)'
  <2> SUFFICES ASSUME ~overlapped', PortsUsed(Latest), NEW p \in Ports(Latest)
               PROVE  p < PORTCONNECTION' /\ p < form'.value.key
    BY <1>12 DEF PortsUsed
  <2>1. p < PORTCONNECTION BY DEF PortsUsed
  <2>2. Latest \in Document
    BY <1>0, <1>2 DEF PageTyped, Latest
  <2>3. p \in Nat BY <2>2, PortsNat
  <2> QED BY <1>1, <1>4, <1>8, <2>1, <2>3
<1>21. ShowInv' BY <1>0, <1>1, <1>2, <1>12, <1>18, <1>20 DEF ShowInv
<1> QED BY <1>9, <1>10, <1>11, <1>13, <1>14, <1>19, <1>21 DEF IInv

LEMMA DrawCopyStep ==
    ASSUME IInv, NEW l \in Drawable, NEW from \in {"sender", "receiver"}, ~form.open,
           checkConnection(l) \in {"receiver_full", "sender_full"}, TEMPORARYINFO' = l,
           copyConnectors(l, from), connectLines(l),
           UNCHANGED <<moduleArray, PORTMODULE, file, form, PORTCONNECTION>>
    PROVE  IInv'
<1>0. /\ PageTyped /\ RequestsTyped /\ LinkKnown /\ HistoryInv /\ AloneInv /\ SavedInv
      /\ PortsInv /\ LinesInv /\ ShowInv
  BY DEF IInv, Typed
<1>1. /\ moduleArray' = moduleArray /\ PORTMODULE' = PORTMODULE /\ file' = file
      /\ form' = form /\ PORTCONNECTION' = PORTCONNECTION
  OBVIOUS
<1>2. overlapped \in BOOLEAN /\ unsaved \in BOOLEAN BY <1>0 DEF PageTyped
<1>3. l \in AnyLink BY DrawableProps
<1>4. PICK r \in RequestSet : /\ r = Request("copy", l.mSend, l.mReceive, from)
                              /\ r.kind = "copy" /\ r.stage = "sent" /\ r.alone
  <2>1. l.mSend \in Nat /\ l.mReceive \in Nat BY <1>3 DEF AnyLink
  <2> QED BY <2>1, ReadTyped
<1>5. Start(r) BY <1>4 DEF copyConnectors
<1>6. /\ HistoryInv' /\ AloneInv' /\ overlapped' \in BOOLEAN /\ unsaved' \in BOOLEAN
      /\ ~overlapped' => ~overlapped /\ requests = <<>> /\ Only(r)
      /\ ~unsaved' => ~unsaved /\ requests = <<>> /\ Only(r)
  BY <1>0, <1>1, <1>2, <1>4, <1>5, StartHistory
<1>7. RequestsTyped' BY <1>0, <1>2, <1>5, StartProps
<1>8. overallConnections \in Seq(AnyLink) BY <1>0 DEF PageTyped
<1>9. /\ overallConnections' \in Seq(AnyLink)
      /\ ToSet(overallConnections') = ToSet(overallConnections) \cup {l}
      /\ Agree(Lines) => Agree(Lines')
  BY <1>3, <1>8, ConnectProps
<1>10. ~Apart(ToSet(overallConnections'))
  <2>1. PICK o \in ToSet(overallConnections) : o # l /\ (SameSender(o, l) \/ SameReceiver(o, l))
    BY <1>8, CheckFinds
  <2>2. o \in ToSet(overallConnections') /\ l \in ToSet(overallConnections') BY <1>9, <2>1
  <2> QED BY <2>1, <2>2 DEF Apart, SameSender, SameReceiver
<1>11. Typed'
  <2>1. PageTyped' BY <1>0, <1>1, <1>3, <1>6, <1>9 DEF PageTyped
  <2>2. LinkKnown' BY <1>3 DEF LinkKnown
  <2> QED BY <1>7, <2>1, <2>2 DEF Typed
<1>12. ASSUME Only(r), requests = <<>>
       PROVE  /\ Latest' = file /\ Latest = file /\ ~Loading /\ ~Loading' /\ ~Saving
              /\ ~Linking' /\ requests'[1].kind = "copy"
  <2>1. requests' # <<>> /\ requests'[1] = r BY <1>12 DEF Only
  <2>2. Latest' = file /\ Latest = file BY <1>1, <1>4, <1>12, <2>1 DEF Latest
  <2>3. ~Loading /\ ~Loading' /\ ~Saving BY <1>4, <1>12, <2>1 DEF Loading, Saving
  <2>4. ~Linking' BY <1>1, <1>4, <2>1 DEF Linking, Submitting
  <2> QED BY <1>4, <2>1, <2>2, <2>3, <2>4
<1>13. SavedInv' BY <1>0, <1>1, <1>6, <1>12 DEF SavedInv
<1>14. PortsInv' BY <1>0, <1>1, <1>6, <1>12 DEF PortsInv
<1>15. LinesInv' BY <1>0, <1>6, <1>9, <1>10, <1>12 DEF LinesInv
<1>16. ShowInv'
  <2>1. ~overlapped' => Drawn' = ToSet(overallConnections') BY <1>6, <1>12 DEF Drawn
  <2> QED BY <1>10, <2>1 DEF ShowInv
<1> QED BY <1>6, <1>11, <1>13, <1>14, <1>15, <1>16 DEF IInv

LEMMA DrawStep ==
    ASSUME IInv, NEW l \in Drawable, Draw(l)
    PROVE  IInv'
<1>1. ~form.open /\ TEMPORARYINFO' = l /\ UNCHANGED <<moduleArray, PORTMODULE, file>>
  BY DEF Draw, Operation
<1>2. l \in AnyLink BY DrawableProps
<1>3. CASE /\ checkConnection(l) = "new" /\ "connection" \notin forms
           /\ overlapped' = (overlapped \/ requests # <<>>)
           /\ UNCHANGED <<<<sendLists, receiveLists, overallConnections>>, form, PORTCONNECTION,
                          requests, unsaved>>
  <2>1. UNCHANGED <<moduleArray, sendLists, receiveLists, overallConnections, form,
                    PORTMODULE, PORTCONNECTION, requests, unsaved, file>>
    BY <1>1, <1>3
  <2> QED BY <1>1, <1>2, <1>3, <2>1, DrawLostStep
<1>4. CASE /\ checkConnection(l) = "new" /\ "connection" \in forms
           /\ callConnectForm /\ connectLines(l)
  BY <1>1, <1>4, DrawNewStep
<1>5. CASE /\ checkConnection(l) = "receiver_full"
           /\ copyConnectors(l, "receiver") /\ connectLines(l)
           /\ UNCHANGED <<form, PORTCONNECTION>>
  BY <1>1, <1>5, DrawCopyStep
<1>6. CASE /\ checkConnection(l) = "sender_full"
           /\ copyConnectors(l, "sender") /\ connectLines(l)
           /\ UNCHANGED <<form, PORTCONNECTION>>
  BY <1>1, <1>6, DrawCopyStep
<1> QED BY <1>3, <1>4, <1>5, <1>6 DEF Draw

LEMMA SubmitStep ==
    ASSUME IInv, NEW value \in FormValues, submitNewConnection(value)
    PROVE  IInv'
<1>0. /\ PageTyped /\ RequestsTyped /\ LinkKnown /\ HistoryInv /\ AloneInv /\ SavedInv
      /\ PortsInv /\ LinesInv /\ ShowInv
  BY DEF IInv, Typed
<1>1. /\ moduleArray' = moduleArray /\ sendLists' = sendLists /\ receiveLists' = receiveLists
      /\ overallConnections' = overallConnections /\ TEMPORARYINFO' = TEMPORARYINFO
      /\ PORTMODULE' = PORTMODULE /\ PORTCONNECTION' = PORTCONNECTION /\ file' = file
      /\ form.open /\ form' = [open |-> FALSE, value |-> value]
  BY DEF submitNewConnection
<1>2. overlapped \in BOOLEAN /\ unsaved \in BOOLEAN BY <1>0 DEF PageTyped
<1>3. TEMPORARYINFO \in AnyLink BY <1>0, <1>1 DEF PageTyped
<1>4. PICK r \in RequestSet :
          /\ r = Request("submit", TEMPORARYINFO.mSend, TEMPORARYINFO.mReceive, "none")
          /\ r.kind = "submit" /\ r.stage = "sent" /\ r.alone
          /\ r.mSend = TEMPORARYINFO.mSend /\ r.mRec = TEMPORARYINFO.mReceive
  <2>1. TEMPORARYINFO.mSend \in Nat /\ TEMPORARYINFO.mReceive \in Nat BY <1>3 DEF AnyLink
  <2> QED BY <2>1, ReadTyped
<1>5. Start(r) BY <1>4 DEF submitNewConnection
<1>6. ~form'.open /\ form'.value = value BY <1>1
<1>7. /\ HistoryInv' /\ AloneInv' /\ overlapped' \in BOOLEAN /\ unsaved' \in BOOLEAN
      /\ ~overlapped' => ~overlapped /\ requests = <<>> /\ Only(r)
      /\ ~unsaved' => ~unsaved /\ requests = <<>> /\ Only(r)
  BY <1>0, <1>2, <1>4, <1>5, <1>6, StartHistory
<1>8. RequestsTyped' BY <1>0, <1>2, <1>5, StartProps
<1>9. value \in Value \cup {NoConn} /\ (value.transport = "tcp" => value = form.value)
  <2>1. form.value \in Value \cup {NoConn} BY <1>0 DEF PageTyped
  <2>2. \A p \in Paths : [transport |-> "ipc", key |-> p] \in Value BY DEF Value, Conn, Blank
  <2>3. NoConn.transport # "tcp" BY DEF NoConn
  <2> QED BY <2>1, <2>2, <2>3 DEF FormValues
<1>10. Typed'
  <2>1. form' \in [open : BOOLEAN, value : Value \cup {NoConn}] BY <1>1, <1>9
  <2>2. PageTyped' BY <1>0, <1>1, <1>6, <1>7, <2>1 DEF PageTyped
  <2>3. LinkKnown' BY <1>1, <1>3 DEF LinkKnown
  <2> QED BY <1>8, <2>2, <2>3 DEF Typed
<1>11. ASSUME Only(r), requests = <<>>
       PROVE  /\ Latest' = file /\ Latest = file /\ ~Loading /\ ~Loading' /\ ~Saving
              /\ Submitting' /\ Linking' /\ requests'[1] = r
  <2>1. requests' # <<>> /\ requests'[1] = r BY <1>11 DEF Only
  <2>2. Latest' = file /\ Latest = file BY <1>1, <1>4, <1>11, <2>1 DEF Latest
  <2>3. ~Loading /\ ~Loading' /\ ~Saving BY <1>4, <1>11, <2>1 DEF Loading, Saving
  <2>4. Submitting' /\ Linking' BY <1>4, <2>1 DEF Linking, Submitting
  <2> QED BY <2>1, <2>2, <2>3, <2>4
<1>12. SavedInv' BY <1>0, <1>1, <1>7, <1>11 DEF SavedInv
<1>13. PortsInv' BY <1>0, <1>1, <1>7, <1>11 DEF PortsInv
<1>14. Linking BY <1>1 DEF Linking
<1>15. ~overlapped' => Drawn' = Drawn BY <1>1, <1>7, <1>11, <1>14 DEF Drawn
<1>16. LinesInv'
  <2> SUFFICES ASSUME ~overlapped'
               PROVE  Agree(Lines)' /\ NewLink(TEMPORARYINFO)' /\ requests'[1].kind # "copy"
    BY DEF LinesInv
  <2>1. Agree(Lines) /\ NewLink(TEMPORARYINFO) BY <1>0, <1>7, <1>14 DEF LinesInv
  <2>2. Lines' = Lines /\ Drawable' = Drawable BY <1>1 DEF Lines, Drawable
  <2>3. NewLink(TEMPORARYINFO)'
    BY <1>1, <1>4, <1>6, <1>7, <1>9, <1>11, <1>15, <2>1, <2>2 DEF NewLink
  <2> QED BY <1>4, <1>7, <1>11, <2>1, <2>2, <2>3
<1>17. ~overlapped' /\ PortsUsed(Latest) => PortsUsed(Latest)'
  BY <1>1, <1>6, <1>7, <1>9, <1>11, <1>14 DEF PortsUsed
<1>18. ShowInv' BY <1>0, <1>1, <1>7, <1>11, <1>15, <1>17 DEF ShowInv
<1> QED BY <1>7, <1>10, <1>12, <1>13, <1>16, <1>18 DEF IInv

LEMMA CancelStep ==
    ASSUME IInv, cancelConnection
    PROVE  IInv'
<1>0. /\ PageTyped /\ RequestsTyped /\ LinkKnown /\ HistoryInv /\ AloneInv /\ SavedInv
      /\ PortsInv /\ LinesInv /\ ShowInv
  BY DEF IInv, Typed
<1>1. /\ moduleArray' = moduleArray /\ TEMPORARYINFO' = TEMPORARYINFO
      /\ PORTMODULE' = PORTMODULE /\ PORTCONNECTION' = PORTCONNECTION /\ file' = file
      /\ requests' = requests /\ overlapped' = overlapped /\ unsaved' = unsaved
      /\ form.open /\ form' = [form EXCEPT !.open = FALSE] /\ deleteConnection(TEMPORARYINFO)
  BY DEF cancelConnection, history
<1>2. overallConnections \in Seq(AnyLink) /\ form \in [open : BOOLEAN, value : Value \cup {NoConn}]
  BY <1>0 DEF PageTyped
<1>3. ~form'.open /\ form' \in [open : BOOLEAN, value : Value \cup {NoConn}] BY <1>1, <1>2
<1>4. overallConnections' \in Seq(AnyLink)
  <2>1. overallConnections' = RemoveFirst(overallConnections, TEMPORARYINFO)
    BY <1>1 DEF deleteConnection
  <2> QED BY <1>2, <2>1, RemoveFirstProps
<1>5. Typed'
  <2>1. PageTyped' BY <1>0, <1>1, <1>3, <1>4 DEF PageTyped
  <2>2. LinkKnown' BY <1>0, <1>1 DEF LinkKnown
  <2>3. RequestsTyped' BY <1>0, <1>1 DEF RequestsTyped
  <2> QED BY <2>1, <2>2, <2>3 DEF Typed
<1>6. HistoryInv' BY <1>0, <1>1, <1>3 DEF HistoryInv
<1>7. AloneInv'
  <2> SUFFICES ASSUME NEW i \in DOMAIN requests, requests[i].alone PROVE ChainInv(requests[i])'
    BY <1>1 DEF AloneInv
  <2>1. ChainInv(requests[i]) BY <1>0 DEF AloneInv
  <2>2. requests[i].kind # "load" BY <1>1, <2>1 DEF ChainInv
  <2> QED BY <1>1, <2>1, <2>2 DEF ChainInv
<1>8. Latest' = Latest /\ Saving' = Saving /\ Loading' = Loading BY <1>1 DEF Latest, Saving, Loading
<1>9. SavedInv' BY <1>0, <1>1, <1>8 DEF SavedInv
<1>10. PortsInv' BY <1>0, <1>1, <1>8 DEF PortsInv
<1>11. Linking BY <1>1 DEF Linking
<1>12. ASSUME ~overlapped
       PROVE  /\ requests = <<>> /\ ~Linking' /\ Agree(Lines')
              /\ ToSet(overallConnections') = ToSet(overallConnections) \ {TEMPORARYINFO}
  <2>1. requests = <<>> BY <1>0, <1>1, <1>12 DEF HistoryInv
  <2>2. ~Linking' BY <1>1, <1>3, <2>1 DEF Linking, Submitting
  <2>3. Agree(Lines) /\ NewLink(TEMPORARYINFO) BY <1>0, <1>11, <1>12 DEF LinesInv
  <2>4. TEMPORARYINFO \in DOMAIN sendLists /\ sendLists[TEMPORARYINFO] = 1 BY <2>3 DEF NewLink
  <2>5. /\ Agree(Lines')
        /\ ToSet(overallConnections') = ToSet(overallConnections) \ {TEMPORARYINFO}
    BY <1>1, <1>2, <2>3, <2>4, DropLink
  <2> QED BY <2>1, <2>2, <2>5
<1>13. LinesInv' BY <1>1, <1>12 DEF LinesInv
<1>14. ~overlapped => Drawn' = Drawn BY <1>11, <1>12 DEF Drawn
<1>15. ~overlapped /\ PortsUsed(Latest) => PortsUsed(Latest)'
  BY <1>1, <1>8, <1>12 DEF PortsUsed
<1>16. ShowInv' BY <1>0, <1>1, <1>8, <1>14, <1>15 DEF ShowInv
<1> QED BY <1>5, <1>6, <1>7, <1>9, <1>10, <1>13, <1>16 DEF IInv

LEMMA ReadJSONProps ==
    /\ readJSON \in RequestSet /\ readJSON.kind = "load" /\ readJSON.stage = "sent"
    /\ readJSON.alone
  BY ReadTyped DEF readJSON

(* The globals of a new page. *)
NewPage ==
    /\ moduleArray = <<>> /\ sendLists = EmptyBag /\ receiveLists = EmptyBag
    /\ overallConnections = <<>> /\ TEMPORARYINFO = NoLink
    /\ form = [open |-> FALSE, value |-> NoConn] /\ PORTMODULE = 5000 /\ PORTCONNECTION = 8000

(* What the invariant asks of them. *)
CleanPage ==
    /\ moduleArray \in Seq(ModuleSet) /\ overallConnections \in Seq(AnyLink)
    /\ TEMPORARYINFO \in AnyLink \cup {NoLink} /\ ~form.open
    /\ form \in [open : BOOLEAN, value : Value \cup {NoConn}]
    /\ PORTMODULE \in Nat /\ PORTCONNECTION \in Nat
    /\ moduleArray = <<>> /\ Lines = NoLines /\ Agree(Lines)

LEMMA NewPageProps == NewPage => CleanPage
<1> SUFFICES ASSUME NewPage PROVE CleanPage OBVIOUS
<1>1. moduleArray \in Seq(ModuleSet) /\ overallConnections \in Seq(AnyLink) BY DEF NewPage
<1>2. form \in [open : BOOLEAN, value : Value \cup {NoConn}] /\ ~form.open BY DEF NewPage
<1>3. PORTMODULE \in Nat /\ PORTCONNECTION \in Nat BY DEF NewPage
<1>4. Lines = NoLines BY DEF NewPage, Lines, NoLines
<1>5. Agree(NoLines)
  <2>1. DOMAIN EmptyBag = {} BY DEF EmptyBag, SetToBag
  <2>2. ToSet(<<>>) = {} BY DEF ToSet
  <2> QED BY <2>1, <2>2 DEF Agree, NoLines
<1> QED BY <1>1, <1>2, <1>3, <1>4, <1>5 DEF NewPage, CleanPage

LEMMA ReloadStep ==
    ASSUME IInv, Reload
    PROVE  IInv'
<1>0. PageTyped /\ RequestsTyped /\ HistoryInv /\ PortsInv BY DEF IInv, Typed
<1>1. NewPage' BY DEF Reload, PageStart, NewPage
<1>2. CleanPage' BY <1>1, NewPageProps, PTL
<1>3. file' = file /\ overlapped' \in BOOLEAN /\ unsaved' \in BOOLEAN BY DEF Reload
<1>4. /\ requests # <<>> => overlapped' /\ unsaved'
      /\ ~overlapped' => ~overlapped /\ requests = <<>>
      /\ ~unsaved' => ~unsaved /\ requests = <<>>
      /\ unsaved' => overlapped'
  BY <1>0 DEF Reload, PageTyped, HistoryInv
<1>5. RequestsTyped' /\ Reopened BY <1>0, ReloadProps
<1>6. readJSON.kind = "load" /\ readJSON.stage = "sent" /\ readJSON.alone BY ReadJSONProps
<1>7. Len(requests') = 1 => DOMAIN requests' = {1} /\ requests' # <<>>
  BY <1>5, LenOne DEF RequestsTyped
<1>8. Typed'
  <2>1. PageTyped'
    <3>1. file \in Document BY <1>0 DEF PageTyped
    <3> QED BY <1>2, <1>3, <3>1 DEF PageTyped, CleanPage
  <2>2. LinkKnown' BY <1>5, <1>6, <1>7 DEF LinkKnown, Reopened
  <2> QED BY <1>5, <2>1, <2>2 DEF Typed
<1>9. HistoryInv'
  <2>1. ~form'.open BY <1>2 DEF CleanPage
  <2> QED BY <1>4, <1>5, <1>6, <1>7, <2>1 DEF HistoryInv, Reopened
<1>10. AloneInv'
  <2> SUFFICES ASSUME NEW i \in DOMAIN requests', requests'[i].alone PROVE ChainInv(requests[i])'
    BY DEF AloneInv
  <2>1. requests'[i] = readJSON BY <1>5, <1>7 DEF Reopened
  <2>2. Lines' = NoLines /\ moduleArray' = <<>> /\ ~form'.open BY <1>2 DEF CleanPage
  <2> QED BY <1>6, <2>1, <2>2 DEF ChainInv
<1>11. SavedInv'
  <2>1. moduleArray' = <<>> BY <1>2 DEF CleanPage
  <2>2. \A doc : Covers(moduleArray', doc) BY <2>1 DEF Covers
  <2> QED BY <2>2 DEF SavedInv
<1>12. ASSUME ~overlapped'
       PROVE  /\ ~overlapped /\ requests = <<>> /\ requests'[1] = readJSON
              /\ Loading' /\ Latest' = file /\ Latest = file /\ ~Linking'
  <2>1. ~overlapped /\ requests = <<>> BY <1>4, <1>12
  <2>2. requests' # <<>> /\ requests'[1] = readJSON BY <1>5, <1>7, <2>1 DEF Reopened
  <2>3. Loading' BY <1>6, <2>2 DEF Loading
  <2>4. Latest' = file /\ Latest = file BY <1>3, <1>6, <2>1, <2>2 DEF Latest
  <2>5. ~form'.open BY <1>2 DEF CleanPage
  <2>6. ~Linking' BY <1>6, <2>2, <2>5 DEF Linking, Submitting
  <2> QED BY <2>1, <2>2, <2>3, <2>4, <2>6
<1>13. PortsInv' BY <1>0, <1>12 DEF PortsInv
<1>14. LinesInv' BY <1>2, <1>6, <1>12 DEF LinesInv, CleanPage
<1>15. ShowInv' BY <1>12 DEF ShowInv
<1> QED BY <1>8, <1>9, <1>10, <1>11, <1>13, <1>14, <1>15 DEF IInv

LEMMA InitHolds ==
    ASSUME Init
    PROVE  IInv
<1>1. NewPage BY DEF Init, PageStart, NewPage
<1>2. CleanPage BY <1>1, NewPageProps
<1>3. /\ requests = <<readJSON>> /\ overlapped = FALSE /\ unsaved = FALSE
      /\ file \in Document /\ PortsDiffer(file)
  BY CanvasAssumption DEF Init, CanvasAssumption, PortsDiffer
<1>4. /\ readJSON \in RequestSet /\ readJSON.kind = "load" /\ readJSON.stage = "sent"
      /\ readJSON.alone
  BY ReadJSONProps
<1>5. requests \in Seq(RequestSet) /\ Len(requests) = 1 /\ requests[1] = readJSON
      /\ DOMAIN requests = {1} /\ requests # <<>>
  <2>1. PICK r \in RequestSet : r = readJSON BY <1>4
  <2>2. requests = <<r>> BY <1>3, <2>1
  <2> QED BY <2>1, <2>2
<1>6. Loading /\ Latest = file /\ ~Linking
  <2>1. ~form.open BY <1>2 DEF CleanPage
  <2> QED BY <1>4, <1>5, <2>1 DEF Loading, Latest, Linking, Submitting
<1>7. Typed
  <2>1. PageTyped BY <1>2, <1>3 DEF PageTyped, CleanPage
  <2>2. LinkKnown BY <1>4, <1>5 DEF LinkKnown
  <2> QED BY <1>5, <2>1, <2>2 DEF Typed, RequestsTyped
<1>8. HistoryInv BY <1>2, <1>3, <1>4, <1>5 DEF HistoryInv, CleanPage
<1>9. AloneInv BY <1>2, <1>4, <1>5 DEF AloneInv, ChainInv, CleanPage
<1>10. SavedInv
  <2>1. moduleArray = <<>> BY <1>2 DEF CleanPage
  <2>2. \A doc : Covers(moduleArray, doc) BY <2>1 DEF Covers
  <2> QED BY <2>2 DEF SavedInv
<1>11. PortsInv BY <1>3, <1>6 DEF PortsInv
<1>12. LinesInv BY <1>2, <1>4, <1>5, <1>6 DEF LinesInv, CleanPage
<1>13. ShowInv BY <1>6 DEF ShowInv
<1> QED BY <1>7, <1>8, <1>9, <1>10, <1>11, <1>12, <1>13 DEF IInv

(* Steps that change none of this: the forms are made, or nothing happens. *)
LEMMA IdleStep ==
    ASSUME IInv,
           UNCHANGED <<moduleArray, sendLists, receiveLists, overallConnections, TEMPORARYINFO,
                       form, PORTMODULE, PORTCONNECTION, file, requests, overlapped, unsaved>>
    PROVE  IInv'
<1>0. /\ PageTyped /\ RequestsTyped /\ LinkKnown /\ HistoryInv /\ AloneInv /\ SavedInv
      /\ PortsInv /\ LinesInv /\ ShowInv
  BY DEF IInv, Typed
<1>1. /\ moduleArray' = moduleArray /\ sendLists' = sendLists /\ receiveLists' = receiveLists
      /\ overallConnections' = overallConnections /\ TEMPORARYINFO' = TEMPORARYINFO
      /\ form' = form /\ PORTMODULE' = PORTMODULE /\ PORTCONNECTION' = PORTCONNECTION
      /\ file' = file /\ requests' = requests /\ overlapped' = overlapped /\ unsaved' = unsaved
  OBVIOUS
<1>2. /\ Latest' = Latest /\ Saving' = Saving /\ Loading' = Loading /\ Lines' = Lines
      /\ Submitting' = Submitting /\ Drawable' = Drawable
  BY <1>1 DEF Latest, Saving, Loading, Lines, Submitting, Drawable
<1>3. Linking' = Linking BY <1>1, <1>2 DEF Linking
<1>4. Drawn' = Drawn BY <1>1, <1>3 DEF Drawn
<1>5. Typed' BY <1>0, <1>1 DEF Typed, PageTyped, RequestsTyped, LinkKnown
<1>6. HistoryInv' BY <1>0, <1>1 DEF HistoryInv
<1>7. AloneInv' BY <1>0, <1>1, <1>2 DEF AloneInv, ChainInv
<1>8. SavedInv' BY <1>0, <1>1, <1>2 DEF SavedInv
<1>9. PortsInv' BY <1>0, <1>1, <1>2 DEF PortsInv
<1>10. LinesInv' BY <1>0, <1>1, <1>2, <1>3, <1>4 DEF LinesInv, NewLink
<1>11. ShowInv' BY <1>0, <1>1, <1>2, <1>3, <1>4 DEF ShowInv, PortsUsed
<1> QED BY <1>5, <1>6, <1>7, <1>8, <1>9, <1>10, <1>11 DEF IInv

-----------------------------------------------------------------------------
(***************************************************************************)
(* The chains: answers, callbacks and posts.                               *)
(***************************************************************************)

(* Nothing overlaps: the chain that takes a step is the only one. *)
Lone(i) ==
    /\ i = 1 /\ requests # <<>> /\ Len(requests) = 1 /\ DOMAIN requests = {1}
    /\ requests[1].alone /\ ~unsaved /\ (~overlapped => ~form.open)

LEMMA LoneProps ==
    ASSUME RequestsTyped, HistoryInv, NEW i \in DOMAIN requests, ~overlapped \/ ~unsaved
    PROVE  Lone(i)
<1>1. requests # <<>> BY DEF RequestsTyped
<1>2. /\ Len(requests) = 1 /\ DOMAIN requests = {1} /\ requests[1].alone /\ ~unsaved
      /\ (~overlapped => ~form.open)
  BY <1>1, OnlyOne
<1> QED BY <1>1, <1>2 DEF Lone

LEMMA AdvanceLone ==
    ASSUME RequestsTyped, NEW i \in DOMAIN requests, NEW stage, NEW doc, Advanced(i, stage, doc),
           Lone(i)
    PROVE  /\ requests' # <<>> /\ requests'[1].stage = stage /\ requests'[1].data = doc
           /\ SameChain(requests'[1], requests[1])
<1>1. i = 1 /\ DOMAIN requests = {1} BY DEF Lone
<1>2. DOMAIN requests' = {1} BY <1>1 DEF Advanced
<1>3. requests' # <<>> BY <1>2
<1> QED BY <1>1, <1>3 DEF Advanced

LEMMA EndLone ==
    ASSUME RequestsTyped, HistoryInv, NEW i \in DOMAIN requests,
           requests' = RemoveAt(requests, i), Lone(i)
    PROVE  requests' = <<>>
  BY EndProps DEF Lone

(* Steps of a chain that leave the page and the file alone. *)
PageSame ==
    /\ moduleArray' = moduleArray /\ sendLists' = sendLists /\ receiveLists' = receiveLists
    /\ overallConnections' = overallConnections /\ TEMPORARYINFO' = TEMPORARYINFO
    /\ form' = form /\ PORTMODULE' = PORTMODULE /\ PORTCONNECTION' = PORTCONNECTION
FileSame == file' = file /\ overlapped' = overlapped /\ unsaved' = unsaved

LEMMA AdvanceTyped ==
    ASSUME Typed, NEW i \in DOMAIN requests, NEW stage, NEW doc, RequestsTyped',
           Advanced(i, stage, doc), requests[i].stage # "post", PageSame, FileSame
    PROVE  Typed'
<1>0. PageTyped /\ RequestsTyped /\ LinkKnown BY DEF Typed
<1>1. PageTyped' BY <1>0 DEF PageTyped, PageSame, FileSame
<1>2. LinkKnown'
  <2> SUFFICES ASSUME NEW j \in DOMAIN requests', requests'[j].kind \in {"submit", "copy"},
                      requests'[j].stage # "post"
               PROVE  TEMPORARYINFO \in AnyLink
    BY DEF LinkKnown, PageSame
  <2>1. /\ j \in DOMAIN requests /\ requests'[j].kind = requests[j].kind
        /\ j # i => requests'[j] = requests[j]
    BY DEF Advanced, SameChain
  <2>2. requests[j].stage # "post" BY <2>1
  <2> QED BY <1>0, <2>1, <2>2 DEF LinkKnown
<1> QED BY <1>1, <1>2 DEF Typed

LEMMA EndTyped ==
    ASSUME PageTyped', LinkKnown, RequestsTyped, HistoryInv, NEW i \in DOMAIN requests,
           requests' = RemoveAt(requests, i), TEMPORARYINFO' = TEMPORARYINFO
    PROVE  Typed'
<1>1. RequestsTyped' /\ \A p \in DOMAIN requests' : \E j \in DOMAIN requests : requests'[p] = requests[j]
  BY EndProps
<1>2. LinkKnown' BY <1>1 DEF LinkKnown
<1> QED BY <1>1, <1>2 DEF Typed

LEMMA ServeGetStep ==
    ASSUME IInv, NEW i \in DOMAIN requests, ServeGet(i)
    PROVE  IInv'
<1>0. /\ PageTyped /\ RequestsTyped /\ LinkKnown /\ HistoryInv /\ AloneInv /\ SavedInv
      /\ PortsInv /\ LinesInv /\ ShowInv /\ Typed
  BY DEF IInv, Typed
<1>1. PageSame /\ FileSame BY DEF ServeGet, page, history, PageSame, FileSame
<1>2. file \in Document BY <1>0 DEF PageTyped
<1>3. requests[i].stage = "sent" BY DEF ServeGet
<1>4. RequestsTyped' /\ Advanced(i, "got", file)
  BY <1>0, <1>2, AdvanceProps DEF ServeGet
<1>5. Typed' BY <1>0, <1>1, <1>3, <1>4, AdvanceTyped
<1>6. requests # <<>> BY <1>0 DEF RequestsTyped
<1>7. HistoryInv' BY <1>0, <1>1, <1>4, <1>6, AdvanceHistory DEF PageSame, FileSame
<1>8. Lines' = Lines /\ Drawable' = Drawable BY <1>1 DEF Lines, Drawable, PageSame
<1>9. AloneInv'
  <2> SUFFICES ASSUME NEW j \in DOMAIN requests', requests'[j].alone PROVE ChainInv(requests[j])'
    BY DEF AloneInv
  <2>1. j \in DOMAIN requests /\ requests[j].alone BY <1>4 DEF Advanced
  <2>2. j = 1 /\ i = 1 BY <1>0, <2>1, AloneIsOne
  <2>3. ChainInv(requests[j]) BY <1>0, <2>1 DEF AloneInv
  <2>4. /\ requests'[j].kind = requests[j].kind /\ requests'[j].stage = "got"
        /\ requests'[j].data = file
    BY <1>4, <2>1, <2>2 DEF Advanced, SameChain
  <2> QED BY <1>1, <1>8, <2>3, <2>4 DEF ChainInv, PageSame, FileSame
<1>10. ASSUME ~overlapped \/ ~unsaved
       PROVE  /\ Latest' = Latest /\ Saving' = Saving /\ Loading' = Loading
              /\ Submitting' = Submitting /\ requests' # <<>> /\ SameChain(requests'[1], requests[1])
  <2>1. Lone(i) BY <1>0, <1>10, LoneProps
  <2>2. /\ requests' # <<>> /\ requests'[1].stage = "got"
        /\ SameChain(requests'[1], requests[1])
    BY <1>0, <1>4, <2>1, AdvanceLone
  <2>3. requests[1].stage = "sent" BY <1>3, <2>1 DEF Lone
  <2>4. requests'[1].kind = requests[1].kind BY <2>2 DEF SameChain
  <2>5. Latest' = Latest BY <1>1, <1>6, <2>2, <2>3 DEF Latest, FileSame
  <2>6. Saving' = Saving /\ Loading' = Loading /\ Submitting' = Submitting
    BY <1>6, <2>2, <2>3, <2>4 DEF Saving, Loading, Submitting
  <2> QED BY <2>2, <2>5, <2>6
<1>11. SavedInv' BY <1>0, <1>1, <1>10 DEF SavedInv, PageSame, FileSame
<1>12. PortsInv' BY <1>0, <1>1, <1>10 DEF PortsInv, PageSame, FileSame
<1>13. ~overlapped => Linking' = Linking BY <1>1, <1>10 DEF Linking, PageSame
<1>14. ~overlapped => Drawn' = Drawn BY <1>1, <1>13 DEF Drawn, PageSame
<1>15. LinesInv'
  <2> SUFFICES ASSUME ~overlapped
               PROVE  /\ Agree(Lines)' /\ (Linking => NewLink(TEMPORARYINFO))'
                      /\ requests'[1].kind = "copy" => ~Apart(ToSet(overallConnections))
    BY <1>1 DEF LinesInv, PageSame, FileSame
  <2>1. /\ Agree(Lines) /\ (Linking => NewLink(TEMPORARYINFO))
        /\ requests[1].kind = "copy" => ~Apart(ToSet(overallConnections))
    BY <1>0, <1>6 DEF LinesInv
  <2>2. /\ requests'[1].kind = requests[1].kind /\ requests'[1].mSend = requests[1].mSend
        /\ requests'[1].mRec = requests[1].mRec
    BY <1>10 DEF SameChain
  <2>3. NewLink(TEMPORARYINFO) => NewLink(TEMPORARYINFO)'
    BY <1>1, <1>8, <1>10, <1>14, <2>2 DEF NewLink, PageSame
  <2> QED BY <1>8, <1>13, <2>1, <2>2, <2>3
<1>16. ~overlapped /\ PortsUsed(Latest) => PortsUsed(Latest)'
  BY <1>1, <1>10, <1>13 DEF PortsUsed, PageSame
<1>17. ShowInv' BY <1>0, <1>1, <1>10, <1>14, <1>16 DEF ShowInv, PageSame, FileSame
<1> QED BY <1>5, <1>7, <1>9, <1>11, <1>12, <1>15, <1>17 DEF IInv

(* A chain that is not alone ends. *)
LEMMA GetFailsStep ==
    ASSUME IInv, NEW i \in DOMAIN requests, GetFails(i)
    PROVE  IInv'
<1>0. /\ PageTyped /\ RequestsTyped /\ LinkKnown /\ HistoryInv
  BY DEF IInv, Typed
<1>1. PageSame /\ FileSame BY DEF GetFails, page, history, PageSame, FileSame
<1>2. requests' = RemoveAt(requests, i) /\ requests[i].stage = "sent" BY DEF GetFails
<1>3. PICK j \in DOMAIN requests : requests[j].stage = "post" BY DEF GetFails
<1>4. i # j BY <1>2, <1>3
<1>5. overlapped /\ unsaved
  <2>1. CASE ~overlapped \/ ~unsaved
    <3>1. DOMAIN requests = {1} BY <1>0, <2>1, LoneProps DEF Lone
    <3> QED BY <1>4, <3>1
  <2> QED BY <2>1
<1>6. overlapped' /\ unsaved' BY <1>1, <1>5 DEF FileSame
<1>7. PageTyped' BY <1>0, <1>1 DEF PageTyped, PageSame, FileSame
<1>8. Typed' BY <1>0, <1>1, <1>2, <1>7, EndTyped DEF PageSame
<1>9. HistoryInv' /\ AloneInv'
  <2>1. /\ overlapped \in BOOLEAN /\ unsaved \in BOOLEAN /\ unsaved' = unsaved
        /\ UNCHANGED <<form, overlapped>>
    BY <1>0, <1>1 DEF PageTyped, PageSame, FileSame
  <2> QED BY <1>0, <1>2, <2>1, EndHistory
<1>10. SavedInv' /\ PortsInv' /\ LinesInv' /\ ShowInv'
  BY <1>6 DEF SavedInv, PortsInv, LinesInv, ShowInv
<1> QED BY <1>8, <1>9, <1>10 DEF IInv

LEMMA EditModuleStep ==
    ASSUME IInv, NEW i \in DOMAIN requests, editModule(i)
    PROVE  IInv'
<1>0. /\ PageTyped /\ RequestsTyped /\ LinkKnown /\ HistoryInv /\ AloneInv /\ SavedInv
      /\ PortsInv /\ LinesInv /\ ShowInv
  BY DEF IInv, Typed
<1>1. PageSame /\ overlapped' = overlapped BY DEF editModule, page, PageSame
<1>2. /\ requests' = RemoveAt(requests, i) /\ requests[i].stage = "post"
      /\ file' = requests[i].data
  BY DEF editModule
<1>3. /\ overlapped \in BOOLEAN /\ unsaved \in BOOLEAN /\ unsaved' \in BOOLEAN
      /\ unsaved' => unsaved
      /\ unsaved /\ ~unsaved' => requests[i].kind = "write" /\ requests[i].alone
  BY <1>0 DEF PageTyped, editModule
<1>4. unsaved /\ ~unsaved' => Len(requests) = 1 BY <1>0, <1>3, AloneIsOne
<1>5. HistoryInv' /\ AloneInv'
  <2>1. UNCHANGED <<form, overlapped>> BY <1>1 DEF PageSame
  <2> QED BY <1>0, <1>2, <1>3, <1>4, <2>1, EndHistory
<1>6. Typed'
  <2>1. file' \in Document
    <3>1. requests[i] \in RequestSet BY <1>0 DEF RequestsTyped
    <3> QED BY <1>2, <3>1 DEF RequestSet
  <2>2. PageTyped' BY <1>0, <1>1, <1>3, <2>1 DEF PageTyped, PageSame
  <2> QED BY <1>0, <1>1, <1>2, <2>2, EndTyped DEF PageSame
<1>7. ASSUME ~overlapped \/ ~unsaved
      PROVE  /\ requests' = <<>> /\ ~Saving /\ ~Loading /\ Latest' = Latest
             /\ (~overlapped => ~Linking /\ ~Linking')
  <2>1. Lone(i) BY <1>0, <1>7, LoneProps
  <2>2. requests' = <<>> BY <1>0, <1>2, <2>1, EndLone
  <2>3. requests # <<>> /\ requests[1].stage = "post" BY <1>2, <2>1 DEF Lone
  <2>4. Latest' = Latest BY <1>2, <2>1, <2>2, <2>3 DEF Latest, Lone
  <2>5. requests[1].kind # "load" BY <1>0, <2>1, <2>3 DEF AloneInv, ChainInv, Lone
  <2>6. ~Saving /\ ~Loading BY <2>3, <2>5 DEF Saving, Loading
  <2>7. ~overlapped => ~Linking /\ ~Linking'
    BY <1>1, <2>1, <2>2, <2>3 DEF Linking, Submitting, Lone, PageSame
  <2> QED BY <2>2, <2>4, <2>6, <2>7
<1>8. SavedInv'
  <2>1. CASE ~unsaved
    BY <1>0, <1>1, <1>7, <2>1 DEF SavedInv, PageSame
  <2>2. CASE unsaved /\ ~unsaved'
    <3>1. requests[i].kind = "write" /\ requests[i].alone BY <1>3, <2>2
    <3>2. Covers(moduleArray, requests[i].data) BY <1>0, <1>2, <3>1 DEF AloneInv, ChainInv
    <3>3. Len(requests) = 1 BY <1>0, <3>1, AloneIsOne
    <3>4. requests' = <<>> BY <1>0, <1>2, <3>3, EndProps
    <3>5. Latest' = file' BY <3>4 DEF Latest
    <3> QED BY <1>1, <1>2, <3>2, <3>5 DEF SavedInv, PageSame
  <2>3. CASE unsaved' BY <2>3 DEF SavedInv
  <2> QED BY <2>1, <2>2, <2>3
<1>9. ~overlapped => ~Loading' BY <1>7 DEF Loading
<1>10. PortsInv' BY <1>0, <1>1, <1>7 DEF PortsInv, PageSame
<1>11. Lines' = Lines BY <1>1 DEF Lines, PageSame
<1>12. LinesInv' BY <1>0, <1>1, <1>7, <1>11 DEF LinesInv
<1>13. ~overlapped => Drawn' = Drawn BY <1>1, <1>7 DEF Drawn, PageSame
<1>14. ~overlapped /\ PortsUsed(Latest) => PortsUsed(Latest)'
  BY <1>1, <1>7 DEF PortsUsed, PageSame
<1>15. ShowInv' BY <1>0, <1>1, <1>7, <1>13, <1>14 DEF ShowInv, PageSame
<1> QED BY <1>5, <1>6, <1>8, <1>10, <1>12, <1>15 DEF IInv

LEMMA WriteCallbackStep ==
    ASSUME IInv, NEW i \in DOMAIN requests, WriteCallback(i)
    PROVE  IInv'
<1>0. /\ PageTyped /\ RequestsTyped /\ LinkKnown /\ HistoryInv /\ AloneInv /\ SavedInv
      /\ PortsInv /\ LinesInv /\ ShowInv /\ Typed
  BY DEF IInv, Typed
<1>1. PageSame /\ FileSame BY DEF WriteCallback, page, history, PageSame, FileSame
<1>2. requests[i].kind = "write" /\ requests[i].stage = "got" BY DEF WriteCallback, Answered
<1>3. PICK doc \in Document : doc = requests[i].data
  <2>1. requests[i] \in RequestSet BY <1>0 DEF RequestsTyped
  <2> QED BY <2>1 DEF RequestSet
<1>4. moduleArray \in Seq(ModuleSet) BY <1>0 DEF PageTyped
<1>5. PICK full \in Document : /\ full = Merge(doc) /\ Merged(moduleArray, doc, full)
                               /\ Covers(moduleArray, full)
  BY <1>4, MergeProps
<1>6. requests' = [requests EXCEPT ![i].stage = "post", ![i].data = full]
  BY <1>3, <1>5 DEF WriteCallback, Post
<1>7. RequestsTyped' /\ Advanced(i, "post", full) BY <1>0, <1>6, AdvanceProps
<1>8. Typed' BY <1>0, <1>1, <1>2, <1>7, AdvanceTyped
<1>9. requests # <<>> BY <1>0 DEF RequestsTyped
<1>10. HistoryInv' BY <1>0, <1>1, <1>7, <1>9, AdvanceHistory DEF PageSame, FileSame
<1>11. AloneInv'
  <2> SUFFICES ASSUME NEW j \in DOMAIN requests', requests'[j].alone PROVE ChainInv(requests[j])'
    BY DEF AloneInv
  <2>1. j \in DOMAIN requests /\ requests[j].alone BY <1>7 DEF Advanced
  <2>2. j = 1 /\ i = 1 BY <1>0, <2>1, AloneIsOne
  <2>3. /\ requests'[j].kind = "write" /\ requests'[j].stage = "post"
        /\ requests'[j].data = full
    BY <1>2, <1>7, <2>1, <2>2 DEF Advanced, SameChain
  <2> QED BY <1>1, <1>5, <2>3 DEF ChainInv, PageSame
<1>12. ASSUME ~overlapped \/ ~unsaved
       PROVE  /\ Latest' = full /\ Latest = doc /\ ~Loading /\ ~Loading'
              /\ requests'[1].kind # "copy"
              /\ (~overlapped => ~Linking /\ ~Linking')
  <2>1. Lone(i) BY <1>0, <1>12, LoneProps
  <2>2. /\ requests' # <<>> /\ requests'[1].stage = "post" /\ requests'[1].data = full
        /\ SameChain(requests'[1], requests[1])
    BY <1>0, <1>7, <2>1, AdvanceLone
  <2>3. /\ requests[1].stage = "got" /\ requests[1].kind = "write" /\ requests[1].data = doc
        /\ requests[1].data = file
    BY <1>0, <1>2, <1>3, <2>1 DEF Lone, AloneInv, ChainInv
  <2>4. requests'[1].kind = "write" BY <2>2, <2>3 DEF SameChain
  <2>5. Latest' = full /\ Latest = doc BY <2>2, <2>3 DEF Latest
  <2>6. ~Loading /\ ~Loading' BY <2>3, <2>4 DEF Loading
  <2>7. ~overlapped => ~Linking /\ ~Linking'
    BY <1>1, <2>1, <2>3, <2>4 DEF Linking, Submitting, Lone, PageSame
  <2> QED BY <2>4, <2>5, <2>6, <2>7
<1>13. SavedInv' BY <1>1, <1>5, <1>12 DEF SavedInv, PageSame, FileSame
<1>14. PortsInv'
  <2> SUFFICES ASSUME ~overlapped
               PROVE  /\ PortsDiffer(full) /\ PortsDiffer(moduleArray)
                      /\ OnCanvas(moduleArray, full) /\ Below(moduleArray, PORTMODULE)
    BY <1>1, <1>12 DEF PortsInv, PageSame, FileSame
  <2>1. /\ PortsDiffer(doc) /\ PortsDiffer(moduleArray) /\ OnCanvas(moduleArray, doc)
        /\ Below(moduleArray, PORTMODULE)
    BY <1>0, <1>12 DEF PortsInv
  <2> QED BY <1>4, <1>5, <2>1, MergedPorts
<1>15. Lines' = Lines BY <1>1 DEF Lines, PageSame
<1>16. LinesInv' BY <1>0, <1>1, <1>12, <1>15 DEF LinesInv, FileSame
<1>17. ~overlapped => Drawn' = Drawn BY <1>1, <1>12 DEF Drawn, PageSame
<1>18. ShowInv'
  <2> SUFFICES ASSUME ~overlapped, DistinctNames(moduleArray), Apart(Drawn)
               PROVE  DistinctNames(full) /\ Shown(moduleArray, full, Drawn) /\ PortsUsed(Latest)'
    BY <1>1, <1>12, <1>17 DEF ShowInv, PageSame, FileSame
  <2>1. DistinctNames(doc) /\ Shown(moduleArray, doc, Drawn) /\ PortsUsed(Latest)
    BY <1>0, <1>12 DEF ShowInv
  <2>2. DistinctNames(full) BY <1>4, <1>5, <2>1, MergedNames
  <2>3. SameAt(moduleArray, doc, moduleArray, full) /\ Ports(full) \subseteq Ports(doc)
    BY <1>4, <1>5, MergedAt
  <2>4. Shown(moduleArray, full, Drawn) BY <2>1, <2>3, SameAtShown
  <2>5. PortsUsed(Latest)' BY <1>1, <1>12, <2>1, <2>3 DEF PortsUsed, PageSame
  <2> QED BY <2>2, <2>4, <2>5
<1> QED BY <1>8, <1>10, <1>11, <1>13, <1>14, <1>16, <1>18 DEF IInv

(* All of the invariant but what is about links. *)
DocumentInv == Typed /\ HistoryInv /\ AloneInv /\ SavedInv /\ PortsInv

(* The callback of a link posts a document with the same connectors. *)
LEMMA PostShapeStep ==
    ASSUME IInv, NEW i \in DOMAIN requests, requests[i].kind \in {"submit", "copy"},
           requests[i].stage = "got", NEW new \in Document, SameShape(requests[i].data, new),
           Post(i, new), PageSame, FileSame
    PROVE  /\ DocumentInv' /\ LinesInv'
           /\ ~overlapped => /\ Lone(i) /\ Latest' = new /\ Latest = file /\ ~Loading /\ ~Saving
                             /\ requests[i].data = file /\ ~Linking'
<1>0. /\ PageTyped /\ RequestsTyped /\ LinkKnown /\ HistoryInv /\ AloneInv /\ SavedInv
      /\ PortsInv /\ LinesInv /\ Typed
  BY DEF IInv, Typed
<1>1. RequestsTyped' /\ Advanced(i, "post", new) BY <1>0, AdvanceProps DEF Post
<1>2. Typed' BY <1>0, <1>1, AdvanceTyped
<1>3. requests # <<>> BY <1>0 DEF RequestsTyped
<1>4. HistoryInv' BY <1>0, <1>1, <1>3, AdvanceHistory DEF PageSame, FileSame
<1>5. PICK doc \in Document : doc = requests[i].data
  <2>1. requests[i] \in RequestSet BY <1>0 DEF RequestsTyped
  <2> QED BY <2>1 DEF RequestSet
<1>6. AloneInv'
  <2> SUFFICES ASSUME NEW j \in DOMAIN requests', requests'[j].alone PROVE ChainInv(requests[j])'
    BY DEF AloneInv
  <2>1. j \in DOMAIN requests /\ requests[j].alone BY <1>1 DEF Advanced
  <2>2. j = 1 /\ i = 1 BY <1>0, <2>1, AloneIsOne
  <2>3. requests'[j].kind \in {"submit", "copy"} /\ requests'[j].stage = "post"
    BY <1>1, <2>1, <2>2 DEF Advanced, SameChain
  <2> QED BY <2>3 DEF ChainInv
<1>7. ASSUME ~overlapped \/ ~unsaved
      PROVE  /\ Lone(i) /\ Latest' = new /\ Latest = file /\ doc = file /\ ~Loading /\ ~Loading'
             /\ ~Saving /\ (~overlapped => ~Linking') /\ requests'[1].kind = requests[1].kind
  <2>1. Lone(i) BY <1>0, <1>7, LoneProps
  <2>2. /\ requests' # <<>> /\ requests'[1].stage = "post" /\ requests'[1].data = new
        /\ SameChain(requests'[1], requests[1])
    BY <1>0, <1>1, <2>1, AdvanceLone
  <2>3. /\ requests[1].stage = "got" /\ requests[1].kind \in {"submit", "copy"}
        /\ requests[1].data = doc /\ requests[1].data = file
    BY <1>0, <1>5, <2>1 DEF Lone, AloneInv, ChainInv
  <2>4. requests'[1].kind = requests[1].kind BY <2>2 DEF SameChain
  <2>5. Latest' = new /\ Latest = file BY <2>2, <2>3 DEF Latest
  <2>6. ~Loading /\ ~Loading' /\ ~Saving BY <2>3, <2>4 DEF Loading, Saving
  <2>7. ~overlapped => ~Linking' BY <2>1, <2>2 DEF Linking, Submitting, Lone, PageSame
  <2> QED BY <2>1, <2>3, <2>4, <2>5, <2>6, <2>7
<1>8. /\ DistinctNames(new) <=> DistinctNames(doc)
      /\ PortsDiffer(new) <=> PortsDiffer(doc)
      /\ Covers(moduleArray, doc) => Covers(moduleArray, new)
      /\ OnCanvas(moduleArray, doc) => OnCanvas(moduleArray, new)
  BY <1>5, ShapeProps
<1>9. SavedInv' BY <1>0, <1>7, <1>8 DEF SavedInv, PageSame, FileSame
<1>10. PortsInv' BY <1>0, <1>7, <1>8 DEF PortsInv, PageSame, FileSame
<1>11. Lines' = Lines BY DEF Lines, PageSame
<1>12. LinesInv' BY <1>0, <1>3, <1>7, <1>11 DEF LinesInv, PageSame, FileSame
<1> QED BY <1>2, <1>4, <1>5, <1>6, <1>7, <1>9, <1>10, <1>12 DEF DocumentInv

(* The callback of a link ends without a post. *)
LEMMA LinkEndsStep ==
    ASSUME IInv, NEW i \in DOMAIN requests, requests[i].kind \in {"submit", "copy"},
           requests[i].stage = "got", Ends(i), FileSame, overallConnections' \in Seq(AnyLink),
           UNCHANGED <<moduleArray, TEMPORARYINFO, form, PORTMODULE, PORTCONNECTION>>
    PROVE  /\ DocumentInv'
           /\ ~overlapped => /\ Lone(i) /\ Latest' = file /\ Latest = file /\ ~Loading /\ ~Saving
                             /\ requests' = <<>> /\ requests[i].data = file /\ ~Linking'
<1>0. /\ PageTyped /\ RequestsTyped /\ LinkKnown /\ HistoryInv /\ AloneInv /\ SavedInv
      /\ PortsInv /\ LinesInv
  BY DEF IInv, Typed
<1>1. /\ moduleArray' = moduleArray /\ TEMPORARYINFO' = TEMPORARYINFO /\ form' = form
      /\ PORTMODULE' = PORTMODULE /\ PORTCONNECTION' = PORTCONNECTION
      /\ requests' = RemoveAt(requests, i)
  BY DEF Ends
<1>2. PageTyped' BY <1>0, <1>1 DEF PageTyped, FileSame
<1>3. Typed' BY <1>0, <1>1, <1>2, EndTyped
<1>4. HistoryInv' /\ AloneInv'
  <2>1. /\ overlapped \in BOOLEAN /\ unsaved \in BOOLEAN /\ unsaved' = unsaved
        /\ UNCHANGED <<form, overlapped>>
    BY <1>0, <1>1 DEF PageTyped, FileSame
  <2> QED BY <1>0, <1>1, <2>1, EndHistory
<1>5. ASSUME ~overlapped \/ ~unsaved
      PROVE  /\ Lone(i) /\ Latest' = file /\ Latest = file /\ ~Loading /\ ~Loading' /\ ~Saving
             /\ (~overlapped => ~Linking') /\ requests' = <<>> /\ requests[i].data = file
  <2>1. Lone(i) BY <1>0, <1>5, LoneProps
  <2>2. requests' = <<>> BY <1>0, <1>1, <2>1, EndLone
  <2>3. /\ requests[1].stage = "got" /\ requests[1].kind \in {"submit", "copy"}
        /\ requests[1].data = file /\ i = 1
    BY <1>0, <2>1 DEF Lone, AloneInv, ChainInv
  <2>4. Latest' = file /\ Latest = file BY <2>2, <2>3 DEF Latest, FileSame
  <2>5. ~Loading /\ ~Loading' /\ ~Saving BY <2>2, <2>3 DEF Loading, Saving
  <2>6. ~overlapped => ~Linking' BY <1>1, <2>1, <2>2 DEF Linking, Submitting, Lone
  <2> QED BY <2>1, <2>2, <2>3, <2>4, <2>5, <2>6
<1>6. SavedInv' BY <1>0, <1>1, <1>5 DEF SavedInv, FileSame
<1>7. PortsInv' BY <1>0, <1>1, <1>5 DEF PortsInv, FileSame
<1> QED BY <1>3, <1>4, <1>5, <1>6, <1>7 DEF DocumentInv

LEMMA CopyCallbackStep ==
    ASSUME IInv, NEW i \in DOMAIN requests, CopyCallback(i)
    PROVE  IInv'
<1>0. /\ PageTyped /\ RequestsTyped /\ LinkKnown /\ HistoryInv /\ LinesInv BY DEF IInv, Typed
<1>1. PageSame /\ FileSame BY DEF CopyCallback, page, history, PageSame, FileSame
<1>2. requests[i].kind = "copy" /\ requests[i].stage = "got" BY DEF CopyCallback, Answered
<1>3. PICK doc \in Document : doc = requests[i].data
  <2>1. requests[i] \in RequestSet BY <1>0 DEF RequestsTyped
  <2> QED BY <2>1 DEF RequestSet
<1>4. ASSUME ~overlapped PROVE ~Apart(ToSet(overallConnections))
  <2>1. Lone(i) BY <1>0, <1>4, LoneProps
  <2> QED BY <1>0, <1>2, <1>4, <2>1 DEF LinesInv, Lone
<1>5. ASSUME DocumentInv', LinesInv', ~overlapped => ~Linking' PROVE IInv'
  <2>1. ~overlapped' => Drawn' = ToSet(overallConnections)
    BY <1>1, <1>5 DEF Drawn, PageSame, FileSame
  <2>2. ShowInv' BY <1>1, <1>4, <2>1 DEF ShowInv, FileSame
  <2> QED BY <1>5, <2>2 DEF IInv, DocumentInv
<1>6. PICK pos : pos = Hits(doc, requests[i]) OBVIOUS
<1>7. PICK k : k = TEMPORARYINFO.ioSend + 1 OBVIOUS
<1>8. PICK l : l = TEMPORARYINFO.ioReceive + 1 OBVIOUS
<1>9. pos.rec \in 0..Len(doc) /\ pos.send \in 0..Len(doc) BY <1>6, HitsProps
<1>10. CASE /\ pos.rec # 0 /\ pos.send # 0 /\ k =< Len(doc[pos.send].senders)
            /\ l =< Len(doc[pos.rec].receivers)
  <2>0. Len(doc) \in Nat BY DocumentIs
  <2>1. pos.rec \in 1..Len(doc) /\ pos.send \in 1..Len(doc) BY <1>9, <1>10, <2>0
  <2>2. TEMPORARYINFO \in AnyLink BY <1>0, <1>2 DEF LinkKnown
  <2>3. TEMPORARYINFO.ioSend \in Nat /\ TEMPORARYINFO.ioReceive \in Nat BY <2>2 DEF AnyLink
  <2>4. Len(doc[pos.send]["senders"]) \in Nat /\ Len(doc[pos.rec]["receivers"]) \in Nat
    <3>1. doc[pos.send]["senders"] \in Seq(Conn) /\ doc[pos.rec]["receivers"] \in Seq(Conn)
      BY <2>1, SidesOf DEF Sides
    <3> QED BY <3>1
  <2>5. k \in 1..Len(doc[pos.send].senders) /\ l \in 1..Len(doc[pos.rec].receivers)
    BY <1>7, <1>8, <1>10, <2>3, <2>4
  <2>6. PICK new : new = IF requests[i].from = "receiver" THEN copyFromReceiver(doc, pos, k, l)
                                                       ELSE copyFromSender(doc, pos, k, l)
    OBVIOUS
  <2>7. new \in Document /\ SameShape(doc, new) BY <2>1, <2>5, <2>6, CopyProps
  <2>8. Post(i, new) BY <1>3, <1>6, <1>7, <1>8, <1>10, <2>6 DEF CopyCallback
  <2>9. DocumentInv' /\ LinesInv' /\ (~overlapped => ~Linking')
    BY <1>1, <1>2, <1>3, <2>7, <2>8, PostShapeStep
  <2> QED BY <1>5, <2>9
<1>11. CASE ~(/\ pos.rec # 0 /\ pos.send # 0 /\ k =< Len(doc[pos.send].senders)
              /\ l =< Len(doc[pos.rec].receivers))
  <2>1. Ends(i) BY <1>3, <1>6, <1>7, <1>8, <1>11 DEF CopyCallback
  <2>2. /\ overallConnections' \in Seq(AnyLink)
        /\ UNCHANGED <<moduleArray, TEMPORARYINFO, form, PORTMODULE, PORTCONNECTION>>
    BY <1>0, <1>1 DEF PageTyped, PageSame
  <2>3. DocumentInv' /\ (~overlapped => ~Linking' /\ requests' = <<>>)
    BY <1>1, <1>2, <2>1, <2>2, LinkEndsStep
  <2>4. Lines' = Lines BY <1>1 DEF Lines, PageSame
  <2>5. LinesInv' BY <1>0, <1>1, <2>3, <2>4 DEF LinesInv, FileSame
  <2> QED BY <1>5, <2>3, <2>5
<1> QED BY <1>10, <1>11

(* The form holds something that the schema refuses. *)
LEMMA RefusedStep ==
    ASSUME IInv, NEW i \in DOMAIN requests, requests[i].kind = "submit",
           requests[i].stage = "got", Ends(i), FileSame, deleteConnection(TEMPORARYINFO),
           UNCHANGED <<moduleArray, TEMPORARYINFO, form, PORTMODULE, PORTCONNECTION>>
    PROVE  IInv'
<1>0. PageTyped /\ LinesInv /\ ShowInv BY DEF IInv, Typed
<1>1. /\ moduleArray' = moduleArray /\ TEMPORARYINFO' = TEMPORARYINFO /\ form' = form
      /\ PORTMODULE' = PORTMODULE /\ PORTCONNECTION' = PORTCONNECTION
  OBVIOUS
<1>2. overallConnections \in Seq(AnyLink) BY <1>0 DEF PageTyped
<1>3. overallConnections' \in Seq(AnyLink)
  <2>1. overallConnections' = RemoveFirst(overallConnections, TEMPORARYINFO)
    BY DEF deleteConnection
  <2> QED BY <1>2, <2>1, RemoveFirstProps
<1>4. /\ DocumentInv'
      /\ ~overlapped => /\ Lone(i) /\ Latest' = file /\ Latest = file /\ ~Loading /\ ~Saving
                        /\ requests' = <<>> /\ requests[i].data = file /\ ~Linking'
  BY <1>3, LinkEndsStep
<1>5. ASSUME ~overlapped
      PROVE  /\ Linking /\ Agree(Lines')
             /\ ToSet(overallConnections') = ToSet(overallConnections) \ {TEMPORARYINFO}
  <2>1. Linking BY <1>4, <1>5 DEF Linking, Submitting, Lone
  <2>2. Agree(Lines) /\ NewLink(TEMPORARYINFO) BY <1>0, <1>5, <2>1 DEF LinesInv
  <2>3. TEMPORARYINFO \in DOMAIN sendLists /\ sendLists[TEMPORARYINFO] = 1 BY <2>2 DEF NewLink
  <2>4. /\ Agree(Lines')
        /\ ToSet(overallConnections') = ToSet(overallConnections) \ {TEMPORARYINFO}
    BY <1>2, <2>2, <2>3, DropLink
  <2> QED BY <2>1, <2>4
<1>6. LinesInv' BY <1>4, <1>5 DEF LinesInv, FileSame
<1>7. ~overlapped => Drawn' = Drawn BY <1>4, <1>5 DEF Drawn
<1>8. ~overlapped /\ PortsUsed(Latest) => PortsUsed(Latest)' BY <1>1, <1>4 DEF PortsUsed
<1>9. ShowInv' BY <1>0, <1>1, <1>4, <1>7, <1>8 DEF ShowInv, FileSame
<1> QED BY <1>4, <1>6, <1>9 DEF IInv, DocumentInv

(* The components of both ends have connectors when the canvas is saved. *)
LEMMA FillableProps ==
    ASSUME NEW doc \in Document, NEW r, DistinctNames(doc), Covers(moduleArray, doc),
           moduleArray \in Seq(ModuleSet), r.mSend \in DOMAIN moduleArray,
           r.mRec \in DOMAIN moduleArray, 0 < moduleArray[r.mSend].nSend,
           0 < moduleArray[r.mRec].nReceive
    PROVE  Fillable(doc, r)
<1>1. \A m \in DOMAIN moduleArray : moduleArray[m].nSend \in Nat /\ moduleArray[m].nReceive \in Nat
  <2>1. \A m \in DOMAIN moduleArray : moduleArray[m] \in ModuleSet OBVIOUS
  <2> QED BY <2>1 DEF ModuleSet
<1>2. PICK a \in DOMAIN doc : /\ doc[a].name = moduleArray[r.mSend].name
                              /\ Len(doc[a].senders) >= moduleArray[r.mSend].nSend
  BY DEF Covers
<1>3. PICK b \in DOMAIN doc : /\ doc[b].name = moduleArray[r.mRec].name
                              /\ Len(doc[b].receivers) >= moduleArray[r.mRec].nReceive
  BY DEF Covers
<1>4. doc[a].senders # <<>>
  <2>1. Len(<<>>) = 0 OBVIOUS
  <2> QED BY <1>1, <1>2, <2>1
<1>5. doc[b].receivers # <<>>
  <2>1. Len(<<>>) = 0 OBVIOUS
  <2> QED BY <1>1, <1>3, <2>1
<1>6. \A i \in DOMAIN doc : /\ doc[i].name = moduleArray[r.mSend].name => i = a
                            /\ doc[i].name = moduleArray[r.mRec].name => i = b
  BY <1>2, <1>3 DEF DistinctNames
<1> QED BY <1>4, <1>5, <1>6 DEF Fillable

(* The value of a submitted link is stored at both ends. *)
LEMMA StoredStep ==
    ASSUME IInv, NEW i \in DOMAIN requests, requests[i].kind = "submit",
           requests[i].stage = "got", form.value # NoConn, PageSame, FileSame,
           IF Fillable(requests[i].data, requests[i])
           THEN Post(i, Fill(requests[i].data, requests[i])) ELSE Ends(i)
    PROVE  IInv'
<1>0. /\ PageTyped /\ RequestsTyped /\ LinkKnown /\ HistoryInv /\ AloneInv /\ SavedInv /\ PortsInv
      /\ LinesInv /\ ShowInv
  BY DEF IInv, Typed
<1>1. PICK doc \in Document : doc = requests[i].data
  <2>1. requests[i] \in RequestSet BY <1>0 DEF RequestsTyped
  <2> QED BY <2>1 DEF RequestSet
<1>2. form.value \in Value BY <1>0 DEF PageTyped
<1>3. PICK r : r = requests[i] OBVIOUS
<1>4. PICK l : l = TEMPORARYINFO OBVIOUS
<1>5. l \in AnyLink BY <1>0, <1>4 DEF LinkKnown
<1>6. moduleArray \in Seq(ModuleSet) /\ overallConnections \in Seq(AnyLink) BY <1>0 DEF PageTyped
<1>7. PICK new : new = Fill(doc, r) OBVIOUS
<1>8. /\ new \in Document /\ SameShape(doc, new)
      /\ Filled(doc, new, moduleArray[r.mSend].name, moduleArray[r.mRec].name,
                l.ioSend, l.ioReceive, form.value)
  BY <1>2, <1>4, <1>7, FillProps
<1>9. ASSUME ~overlapped
      PROVE  /\ Lone(i) /\ Linking /\ NewLink(l) /\ r.mSend = l.mSend /\ r.mRec = l.mReceive
             /\ doc = file /\ Latest = file /\ ~Loading /\ ~Saving /\ ~unsaved
  <2>1. Lone(i) BY <1>0, <1>9, LoneProps
  <2>2. Submitting /\ Linking BY <2>1 DEF Linking, Submitting, Lone
  <2>3. NewLink(l) BY <1>0, <1>4, <1>9, <2>2 DEF LinesInv
  <2>4. r.mSend = l.mSend /\ r.mRec = l.mReceive BY <1>3, <2>1, <2>2, <2>3 DEF NewLink, Lone
  <2>5. doc = file BY <1>0, <1>1, <2>1 DEF Lone, AloneInv, ChainInv
  <2>6. Latest = file /\ ~Loading /\ ~Saving BY <2>1 DEF Lone, Latest, Loading, Saving
  <2> QED BY <2>1, <2>2, <2>3, <2>4, <2>5, <2>6 DEF Lone
<1>10. ASSUME ~overlapped
       PROVE  /\ l.mSend \in 1..Len(moduleArray) /\ l.mReceive \in 1..Len(moduleArray)
              /\ l.ioSend \in Nat /\ l.ioReceive \in Nat
              /\ l.ioSend < moduleArray[l.mSend].nSend
              /\ l.ioReceive < moduleArray[l.mReceive].nReceive
  <2>1. l \in Drawable BY <1>9, <1>10 DEF NewLink
  <2> QED BY <1>5, <1>6, <2>1 DEF Drawable, AnyLink
<1>11. ASSUME ~overlapped, ~Linking', DistinctNames(moduleArray), Apart(Drawn')
       PROVE  /\ DistinctNames(doc) /\ Covers(moduleArray, doc) /\ Fillable(doc, r)
              /\ Shown(moduleArray, new, Drawn') /\ PortsUsed(new)'
  <2>1. Drawn' = ToSet(overallConnections) BY <1>11 DEF Drawn, PageSame
  <2>2. Drawn = ToSet(overallConnections) \ {l} BY <1>4, <1>9, <1>11 DEF Drawn
  <2>3. l \in ToSet(overallConnections)
    <3>1. l \in DOMAIN sendLists BY <1>9, <1>11 DEF NewLink
    <3>2. Agree(Lines) BY <1>0, <1>11 DEF LinesInv
    <3> QED BY <3>1, <3>2 DEF Agree, Lines
  <2>4. Drawn' = Drawn \cup {l} BY <2>1, <2>2, <2>3
  <2>5. Apart(Drawn) BY <1>11, <2>4 DEF Apart
  <2>6. DistinctNames(file) /\ Shown(moduleArray, file, Drawn) /\ PortsUsed(Latest)
    BY <1>0, <1>9, <1>11, <2>5 DEF ShowInv
  <2>7. Covers(moduleArray, file) BY <1>0, <1>9, <1>11, <2>6 DEF SavedInv
  <2>8. Fillable(doc, r)
    <3>1. /\ r.mSend \in DOMAIN moduleArray /\ r.mRec \in DOMAIN moduleArray
          /\ 0 < moduleArray[r.mSend].nSend /\ 0 < moduleArray[r.mRec].nReceive
      <4>1. DOMAIN moduleArray = 1..Len(moduleArray) BY <1>6
      <4>2. \A m \in DOMAIN moduleArray :
               moduleArray[m].nSend \in Nat /\ moduleArray[m].nReceive \in Nat
        <5>1. \A m \in DOMAIN moduleArray : moduleArray[m] \in ModuleSet BY <1>6
        <5> QED BY <5>1 DEF ModuleSet
      <4> QED BY <1>9, <1>10, <1>11, <4>1, <4>2
    <3> QED BY <1>6, <1>9, <1>11, <2>6, <2>7, <3>1, FillableProps
  <2>9. Free(l, Drawn) BY <1>9, <1>11 DEF NewLink
  <2>10. Drawn \in SUBSET AnyLink
    <3>1. ToSet(overallConnections) \subseteq AnyLink BY <1>6 DEF ToSet
    <3> QED BY <2>2, <3>1
  <2>11. \A p \in Ports(file) : p \in Nat BY <1>1, <1>9, <1>11, PortsNat
  <2>12. \A p \in Ports(file) :
            p < PORTCONNECTION /\ (form.value.transport = "tcp" => p < form.value.key)
    BY <1>9, <1>11, <2>6 DEF PortsUsed
  <2>13. form.value.transport = "tcp" => form.value.key \notin Ports(file)
    BY <2>11, <2>12
  <2>14. Shown(moduleArray, new, Drawn \cup {l})
    <3>1. Filled(doc, new, moduleArray[l.mSend].name, moduleArray[l.mReceive].name,
                 l.ioSend, l.ioReceive, form.value)
      BY <1>8, <1>9, <1>11
    <3>2. PICK v \in Value : v = form.value BY <1>2
    <3>3. /\ Covers(moduleArray, doc) /\ Shown(moduleArray, doc, Drawn)
          /\ v.transport = "tcp" => v.key \notin Ports(doc)
      BY <1>9, <1>11, <2>6, <2>7, <2>13, <3>2
    <3> QED BY <1>5, <1>6, <1>8, <1>10, <1>11, <2>9, <2>10, <3>1, <3>2, <3>3, FilledShown
  <2>15. form.value.transport = "tcp" => form.value.key < PORTCONNECTION
    BY <1>9, <1>11 DEF NewLink
  <2>16. ASSUME NEW p \in Ports(new) PROVE p < PORTCONNECTION
    <3>1. p \in Ports(doc) \/ (form.value.transport = "tcp" /\ form.value.key = p)
      BY <1>8, FilledPorts
    <3> QED BY <1>9, <1>11, <2>12, <2>15, <3>1
  <2>17. PortsUsed(new)' BY <1>11, <2>16 DEF PortsUsed, PageSame
  <2> QED BY <1>9, <1>11, <2>4, <2>6, <2>7, <2>8, <2>14, <2>17
<1>12. CASE Fillable(doc, r)
  <2>1. Post(i, new) BY <1>1, <1>3, <1>7, <1>12
  <2>2. /\ DocumentInv' /\ LinesInv'
        /\ ~overlapped => Latest' = new /\ ~Linking'
    BY <1>1, <1>8, <2>1, PostShapeStep
  <2>3. DistinctNames(doc) => DistinctNames(new) BY <1>8, ShapeProps
  <2>4. ~overlapped /\ PortsUsed(new)' => PortsUsed(Latest)' BY <2>2 DEF PortsUsed
  <2>5. ShowInv' BY <1>11, <2>2, <2>3, <2>4 DEF ShowInv, PageSame, FileSame
  <2> QED BY <2>2, <2>5 DEF IInv, DocumentInv
<1>13. CASE ~Fillable(doc, r)
  <2>1. Ends(i) BY <1>1, <1>3, <1>13
  <2>2. /\ overallConnections' \in Seq(AnyLink)
        /\ UNCHANGED <<moduleArray, TEMPORARYINFO, form, PORTMODULE, PORTCONNECTION>>
    BY <1>6 DEF PageSame
  <2>3. DocumentInv' /\ (~overlapped => ~Linking' /\ requests' = <<>>)
    BY <2>1, <2>2, LinkEndsStep
  <2>4. Lines' = Lines BY DEF Lines, PageSame
  <2>5. LinesInv' BY <1>0, <2>3, <2>4 DEF LinesInv, FileSame
  <2>6. ShowInv' BY <1>11, <1>13, <2>3 DEF ShowInv, PageSame, FileSame
  <2> QED BY <2>3, <2>5, <2>6 DEF IInv, DocumentInv
<1> QED BY <1>12, <1>13

LEMMA SubmitCallbackStep ==
    ASSUME IInv, NEW i \in DOMAIN requests, SubmitCallback(i)
    PROVE  IInv'
<1>1. requests[i].kind = "submit" /\ requests[i].stage = "got" BY DEF SubmitCallback, Answered
<1>2. FileSame /\ UNCHANGED <<moduleArray, TEMPORARYINFO, form, PORTMODULE, PORTCONNECTION>>
  BY DEF SubmitCallback, history, FileSame
<1>3. CASE form.value = NoConn /\ deleteConnection(TEMPORARYINFO) /\ Ends(i)
  BY <1>1, <1>2, <1>3, RefusedStep
<1>4. CASE /\ form.value # NoConn
           /\ IF Fillable(requests[i].data, requests[i])
              THEN Post(i, Fill(requests[i].data, requests[i])) ELSE Ends(i)
           /\ UNCHANGED <<sendLists, receiveLists, overallConnections>>
  <2>1. PageSame BY <1>2, <1>4 DEF PageSame
  <2> QED BY <1>1, <1>2, <1>4, <2>1, StoredStep
<1> QED BY <1>3, <1>4 DEF SubmitCallback

(* The links that are read are the ones that the document shows. *)
LEMMA LinksShown ==
    ASSUME NEW mods \in Seq(ModuleSet), NEW doc \in Document, Named(mods, doc), DistinctNames(mods)
    PROVE  Shown(mods, doc, ToSet(LinksOf(doc, mods)))
<1>1. PICK L : L = ToSet(LinksOf(doc, mods)) OBVIOUS
<1>2. L = {l \in AnyLink : \E c \in Value : Joins(mods, doc, l, c)} BY <1>1, LinksJoin
<1>3. \A l \in L : \E c \in Value : Joins(mods, doc, l, c) BY <1>2
<1>4. \A l \in AnyLink, c \in Value : Joins(mods, doc, l, c) => l \in L BY <1>2
<1>5. Shown(mods, doc, L) BY <1>3, <1>4 DEF Shown
<1> QED BY <1>1, <1>5

LEMMA LoadStep ==
    ASSUME IInv, NEW i \in DOMAIN requests, readJSON_helper(i)
    PROVE  IInv'
<1>0. /\ PageTyped /\ RequestsTyped /\ LinkKnown /\ HistoryInv /\ AloneInv /\ SavedInv
      /\ PortsInv /\ LinesInv /\ ShowInv
  BY DEF IInv, Typed
<1>1. requests[i].kind = "load" /\ requests[i].stage = "got" BY DEF readJSON_helper, Answered
<1>2. /\ TEMPORARYINFO' = TEMPORARYINFO /\ form' = form /\ file' = file
      /\ overlapped' = overlapped /\ unsaved' = unsaved /\ requests' = RemoveAt(requests, i)
  BY DEF readJSON_helper, history, Ends
<1>3. PICK doc \in Document : doc = requests[i].data
  <2>1. requests[i] \in RequestSet BY <1>0 DEF RequestsTyped
  <2> QED BY <2>1 DEF RequestSet
<1>4. /\ moduleArray \in Seq(ModuleSet) /\ overallConnections \in Seq(AnyLink)
      /\ PORTMODULE \in Nat /\ PORTCONNECTION \in Nat /\ file \in Document
      /\ overlapped \in BOOLEAN /\ unsaved \in BOOLEAN
  BY <1>0 DEF PageTyped
<1>5. PICK mods : mods = Loaded(doc) OBVIOUS
<1>6. mods \in Seq(ModuleSet) /\ Named(mods, doc) /\ Added(moduleArray, doc, mods)
  BY <1>4, <1>5, LoadedProps
<1>7. PICK links : links = LinksOf(doc, mods) OBVIOUS
<1>8. links \in Seq(AnyLink) BY <1>6, <1>7, LinksMatch
<1>9. PICK lines : lines = Lines OBVIOUS
<1>10. lines.overall = overallConnections BY <1>9 DEF Lines
<1>11. PICK next : next = WithLinks(lines, links) OBVIOUS
<1>12. /\ next.overall \in Seq(AnyLink)
       /\ ToSet(next.overall) = ToSet(lines.overall) \cup ToSet(links)
       /\ Agree(lines) => Agree(next)
  BY <1>4, <1>8, <1>10, <1>11, AddLinks
<1>13. /\ moduleArray' = mods /\ sendLists' = next.sends /\ receiveLists' = next.receives
       /\ overallConnections' = next.overall
  BY <1>3, <1>5, <1>7, <1>9, <1>11 DEF readJSON_helper, LinesAre
<1>14. Agree(lines) => Agree(Lines')
  <2>1. PICK after : after = Lines' OBVIOUS
  <2>2. after.sends = next.sends /\ after.receives = next.receives /\ after.overall = next.overall
    BY <1>13, <2>1 DEF Lines
  <2>3. Agree(next) => Agree(after) BY <2>2, AgreeFields
  <2> QED BY <1>12, <2>1, <2>3
<1>15. /\ PORTCONNECTION' \in Nat /\ \A p \in Ports(doc) : p < PORTCONNECTION'
  <2>1. PORTCONNECTION' = portRange(PORTCONNECTION, MaxOr(Ports(doc), -1))
    BY <1>3 DEF readJSON_helper
  <2>2. Ports(doc) \subseteq Nat /\ IsMax(MaxOr(Ports(doc), -1), Ports(doc), -1)
    BY <1>6, PortsMax
  <2> QED BY <1>4, <2>1, <2>2, RangeAbove
<1>16. PORTMODULE' \in Nat /\ \A k \in 1..Len(doc) : doc[k].port < PORTMODULE'
  <2>1. PICK U : U = {doc[k].port : k \in DOMAIN doc} OBVIOUS
  <2>2. PORTMODULE' = portRange(PORTMODULE, MaxOr(U, -1))
    BY <1>3, <2>1 DEF readJSON_helper
  <2>3. U \subseteq Nat /\ IsMax(MaxOr(U, -1), U, -1) BY <2>1, ModulePortsMax
  <2>4. PORTMODULE' \in Nat /\ \A p \in U : p < PORTMODULE' BY <1>4, <2>2, <2>3, RangeAbove
  <2>5. DOMAIN doc = 1..Len(doc) BY DocumentIs
  <2> QED BY <2>1, <2>4, <2>5
<1>17. Typed'
  <2>1. PageTyped' BY <1>0, <1>2, <1>6, <1>12, <1>13, <1>15, <1>16 DEF PageTyped
  <2> QED BY <1>0, <1>2, <2>1, EndTyped
<1>18. HistoryInv' /\ AloneInv'
  <2>1. UNCHANGED <<form, overlapped>> BY <1>2
  <2> QED BY <1>0, <1>2, <1>4, <2>1, EndHistory
<1>19. ASSUME ~overlapped \/ ~unsaved
       PROVE  /\ requests' = <<>> /\ doc = file /\ Latest = file /\ Latest' = file
              /\ ~Loading' /\ moduleArray = <<>> /\ lines = NoLines /\ ~form.open /\ ~Linking'
  <2>1. Lone(i) BY <1>0, <1>19, LoneProps
  <2>2. requests' = <<>> BY <1>0, <1>2, <2>1, EndLone
  <2>3. ChainInv(requests[1]) BY <1>0, <2>1 DEF AloneInv, Lone
  <2>4. /\ doc = file /\ moduleArray = <<>> /\ lines = NoLines /\ ~form.open
    BY <1>1, <1>3, <1>9, <2>1, <2>3 DEF ChainInv, Lone
  <2>5. Latest = file /\ Latest' = file BY <1>1, <1>2, <2>1, <2>2 DEF Latest, Lone
  <2>6. ~Loading' /\ ~Linking' BY <1>2, <2>2, <2>4 DEF Loading, Linking, Submitting
  <2> QED BY <2>2, <2>4, <2>5, <2>6
<1>20. ASSUME ~overlapped \/ ~unsaved
       PROVE  /\ DistinctNames(mods) => DistinctNames(doc)
              /\ PortsDiffer(doc) => PortsDiffer(mods)
              /\ OnCanvas(mods, doc) /\ Below(mods, PORTMODULE')
              /\ DistinctNames(doc) => Covers(mods, doc)
  <2>1. Added(<<>>, doc, mods) BY <1>6, <1>19, <1>20
  <2>2. Below(mods, PORTMODULE') BY <1>6, <1>16, <2>1, AddedProps
  <2>3. DistinctNames(doc) => Covers(mods, doc) BY <1>5, <1>19, <1>20, LoadedCovers
  <2> QED BY <1>6, <2>1, <2>2, <2>3, AddedProps
<1>21. SavedInv' BY <1>2, <1>13, <1>19, <1>20 DEF SavedInv
<1>22. PortsInv' BY <1>0, <1>2, <1>13, <1>19, <1>20 DEF PortsInv
<1>23. LinesInv'
  <2>1. ~overlapped => Agree(lines) BY <1>0, <1>9 DEF LinesInv
  <2> QED BY <1>2, <1>14, <1>19, <2>1 DEF LinesInv
<1>24. ShowInv'
  <2> SUFFICES ASSUME ~overlapped, DistinctNames(mods)
               PROVE  DistinctNames(Latest') /\ Shown(mods, Latest', Drawn') /\ PortsUsed(Latest)'
    BY <1>2, <1>13 DEF ShowInv
  <2>1. Drawn' = ToSet(next.overall) BY <1>13, <1>19 DEF Drawn
  <2>2. ToSet(lines.overall) = {} BY <1>19 DEF NoLines, ToSet
  <2>3. Drawn' = ToSet(LinksOf(doc, mods)) BY <1>7, <1>12, <2>1, <2>2
  <2>4. Shown(mods, doc, ToSet(LinksOf(doc, mods))) BY <1>6, LinksShown
  <2>5. PortsUsed(Latest)' BY <1>15, <1>19 DEF PortsUsed
  <2> QED BY <1>19, <1>20, <2>3, <2>4, <2>5
<1> QED BY <1>17, <1>18, <1>21, <1>22, <1>23, <1>24 DEF IInv

-----------------------------------------------------------------------------
(***************************************************************************)
(* Results.                                                                *)
(***************************************************************************)

LEMMA NextStep ==
    ASSUME IInv, [Next]_vars
    PROVE  IInv'
<1>0. Typed BY DEF IInv
<1>1. ASSUME NEW b \in Bases, submitNewModule(b) PROVE IInv'
  BY <1>0, <1>1, SubmitModuleWrites, WritingStep
<1>2. ASSUME NEW b \in Bases, NEW nb \in 1..2, submitNewMultiModules(b, nb) PROVE IInv'
  BY <1>0, <1>2, SubmitMultiWrites, WritingStep
<1>3. ASSUME NEW m \in DOMAIN moduleArray, makeSenderContainer(m) \/ makeReceiverContainer(m)
      PROVE  IInv'
  BY <1>0, <1>3, ConnectorWrites, WritingStep
<1>4. ASSUME NEW m, NEW io, initDrawingSend(m, io) \/ initDrawingReceive(m, io) PROVE IInv'
  <2>1. PICK l \in Drawable : Draw(l) BY <1>4 DEF initDrawingSend, initDrawingReceive
  <2> QED BY <2>1, DrawStep
<1>5. ASSUME NEW v \in FormValues, submitNewConnection(v) PROVE IInv' BY <1>5, SubmitStep
<1>6. CASE cancelConnection BY <1>6, CancelStep
<1>7. CASE Reload BY <1>7, ReloadStep
<1>8. CASE User BY <1>1, <1>2, <1>3, <1>4, <1>5, <1>6, <1>7, <1>8 DEF User
<1>9. CASE initConnectionForm \/ initNewModuleForm \/ UNCHANGED vars
  <2>1. UNCHANGED <<moduleArray, sendLists, receiveLists, overallConnections, TEMPORARYINFO,
                    form, PORTMODULE, PORTCONNECTION, file, requests, overlapped, unsaved>>
    BY <1>9 DEF initConnectionForm, initNewModuleForm, vars, page, history
  <2> QED BY <2>1, IdleStep
<1>10. ASSUME NEW i \in DOMAIN requests,
              \/ ServeGet(i) \/ GetFails(i) \/ editModule(i) \/ WriteCallback(i)
              \/ SubmitCallback(i) \/ CopyCallback(i) \/ readJSON_helper(i)
       PROVE  IInv'
  BY <1>10, ServeGetStep, GetFailsStep, EditModuleStep, WriteCallbackStep, SubmitCallbackStep,
     CopyCallbackStep, LoadStep
<1>11. CASE Background BY <1>9, <1>10, <1>11 DEF Background
<1> QED BY <1>8, <1>9, <1>11 DEF Next

(* The inductive invariant: the page, the chain in flight and the file      *)
(* describe one canvas as long as the user lets every chain end before     *)
(* going on.                                                               *)
THEOREM CanvasInductive == Spec => []IInv
<1>1. Init => IInv BY InitHolds
<1>2. IInv /\ [Next]_vars => IInv' BY NextStep
<1> QED BY <1>1, <1>2, PTL DEF Spec

(* The list of the sender, the list of the receiver and overallConnections *)
(* (drag.js connectLines, deleteConnection) hold the same links, whatever  *)
(* is drawn, cancelled, refused or loaded one after the other.             *)
THEOREM LinesAlwaysAgree == Spec => []LinesAgree
<1>1. IInv => LinesAgree
  <2> SUFFICES ASSUME IInv, ~overlapped
               PROVE  sendLists = receiveLists /\ BagToSet(sendLists) = ToSet(overallConnections)
    BY DEF LinesAgree
  <2>1. Agree(Lines) BY DEF IInv, LinesInv
  <2> QED BY <2>1 DEF Agree, Lines, BagToSet
<1> QED BY <1>1, CanvasInductive, PTL

(* A save that ran alone leaves every module of the canvas in the working  *)
(* copy with all of its connectors (writeJSON), also after chains that     *)
(* overlapped have lost some.                                              *)
THEOREM SavesAlwaysHeal == Spec => []SavesHeal
<1>1. IInv => SavesHeal
  <2> SUFFICES ASSUME IInv, requests = <<>>, ~unsaved, DistinctNames(file)
               PROVE  Covers(moduleArray, file)
    BY DEF SavesHeal, Covers
  <2>1. Latest = file /\ ~Saving BY DEF Latest, Saving
  <2> QED BY <2>1 DEF IInv, SavedInv
<1> QED BY <1>1, CanvasInductive, PTL

(* portRange hands out no control port twice, and none that the loaded     *)
(* document uses.                                                          *)
THEOREM ModulePortsAlwaysUnique == Spec => []ModulePortsUnique
<1>1. IInv => ModulePortsUnique
  <2> SUFFICES ASSUME IInv, ~overlapped PROVE PortsDiffer(moduleArray)
    BY DEF ModulePortsUnique, PortsDiffer
  <2>1. CASE Loading
    <3>1. requests # <<>> /\ requests[1].kind = "load" BY <2>1 DEF Loading
    <3>2. DOMAIN requests = {1} /\ requests[1].alone
      BY <3>1, OnlyOne DEF IInv, Typed
    <3>3. ChainInv(requests[1]) BY <3>2 DEF IInv, AloneInv
    <3>4. moduleArray = <<>> BY <3>1, <3>3 DEF ChainInv
    <3> QED BY <3>4 DEF PortsDiffer
  <2>2. CASE ~Loading BY <2>2 DEF IInv, PortsInv
  <2> QED BY <2>1, <2>2
<1> QED BY <1>1, CanvasInductive, PTL

(* A path that no second sender and no second receiver has joins one link. *)
LEMMA PathsSeparate ==
    ASSUME NEW mods \in Seq(ModuleSet), NEW doc \in Document, Named(mods, doc), DistinctNames(mods),
           \A c, d \in ToSet(Connectors(doc, mods)) :
              c.conn = d.conn /\ c.conn.transport = "ipc" /\ c.side = d.side => c = d,
           NEW l \in AnyLink, NEW o \in AnyLink, NEW v, v.transport = "ipc",
           Joins(mods, doc, l, v), Joins(mods, doc, o, v)
    PROVE  l = o
<1>1. /\ Connectors(doc, mods) \in Seq(ItemSet)
      /\ \A x : In(x, Connectors(doc, mods)) <=> IsItem(mods, doc, x)
  BY ConnectorsAre
<1>2. ASSUME NEW side \in Sides, NEW m, NEW chid \in Nat, NEW n, NEW chid2 \in Nat,
             At(mods, doc, side, m, chid, v), At(mods, doc, side, n, chid2, v)
      PROVE  m = n /\ chid = chid2
  <2>1. PICK x : x = [side |-> side, m |-> m, chid |-> chid, conn |-> v] OBVIOUS
  <2>2. PICK y : y = [side |-> side, m |-> n, chid |-> chid2, conn |-> v] OBVIOUS
  <2>3. IsItem(mods, doc, x) BY <1>2, <2>1, ItemsAt
  <2>4. IsItem(mods, doc, y) BY <1>2, <2>2, ItemsAt
  <2>5. PICK conns \in Seq(ItemSet) : conns = Connectors(doc, mods) BY <1>1
  <2>6. In(x, conns) /\ In(y, conns) BY <1>1, <2>3, <2>4, <2>5
  <2>7. x \in ToSet(conns) /\ y \in ToSet(conns) BY <2>6 DEF In, ToSet
  <2>8. x.conn = y.conn /\ x.conn.transport = "ipc" /\ x.side = y.side BY <2>1, <2>2
  <2>9. x = y BY <2>5, <2>7, <2>8
  <2> QED BY <2>1, <2>2, <2>9
<1>3. /\ l.mSend \in Nat /\ l.ioSend \in Nat /\ l.mReceive \in Nat /\ l.ioReceive \in Nat
      /\ o.mSend \in Nat /\ o.ioSend \in Nat /\ o.mReceive \in Nat /\ o.ioReceive \in Nat
  BY DEF AnyLink
<1>4. l.mSend = o.mSend /\ l.ioSend = o.ioSend BY <1>2, <1>3 DEF Joins, Sides
<1>5. l.mReceive = o.mReceive /\ l.ioReceive = o.ioReceive BY <1>2, <1>3 DEF Joins, Sides
<1> QED BY <1>4, <1>5 DEF AnyLink

(* readJSON_helper draws from the working copy exactly the links that are  *)
(* on the canvas, when nothing is under way and no connector, module name  *)
(* or ipc path is used twice: no link is lost by a save or a reload, and   *)
(* none appears.                                                           *)
THEOREM ReloadAlwaysShowsTheSame == Spec => []ReloadShowsTheSame
<1>1. IInv => ReloadShowsTheSame
  <2> SUFFICES ASSUME IInv, Quiet, DistinctNames(moduleArray), Separate
               PROVE  ToSet(LinksOf(file, moduleArray)) = ToSet(overallConnections)
    BY DEF ReloadShowsTheSame
  <2>1. requests = <<>> /\ ~form.open /\ ~overlapped BY DEF Quiet
  <2>2. Latest = file /\ ~Loading /\ ~Linking
    BY <2>1 DEF Latest, Loading, Linking, Submitting
  <2>3. PICK L : L = ToSet(overallConnections) OBVIOUS
  <2>4. Drawn = L BY <2>2, <2>3 DEF Drawn
  <2>5. Apart(L) BY <2>3 DEF Separate
  <2>6. Shown(moduleArray, file, L) BY <2>1, <2>2, <2>4, <2>5 DEF IInv, ShowInv
  <2>7. moduleArray \in Seq(ModuleSet) /\ file \in Document /\ overallConnections \in Seq(AnyLink)
    BY DEF IInv, Typed, PageTyped
  <2>8. L \subseteq AnyLink BY <2>3, <2>7 DEF ToSet
  <2>9. Named(moduleArray, file)
    <3>1. OnCanvas(moduleArray, file) BY <2>1, <2>2 DEF IInv, PortsInv
    <3>2. DOMAIN file = 1..Len(file) /\ DOMAIN moduleArray = 1..Len(moduleArray)
      BY <2>7, DocumentIs
    <3> QED BY <3>1, <3>2 DEF OnCanvas, Named
  <2>10. ToSet(LinksOf(file, moduleArray))
            = {l \in AnyLink : \E c \in Value : Joins(moduleArray, file, l, c)}
    BY <2>7, <2>9, LinksJoin
  <2>11. ASSUME NEW l \in AnyLink, NEW c \in Value, Joins(moduleArray, file, l, c) PROVE l \in L
    <3>1. l \in L \/ (c.transport = "ipc" /\ \E o \in L : Joins(moduleArray, file, o, c))
      BY <2>6, <2>11 DEF Shown
    <3>2. CASE c.transport = "ipc" /\ \E o \in L : Joins(moduleArray, file, o, c)
      <4>1. PICK o \in L : Joins(moduleArray, file, o, c) BY <3>2
      <4>2. o \in AnyLink BY <2>8
      <4>3. \A x, y \in ToSet(Connectors(file, moduleArray)) :
               x.conn = y.conn /\ x.conn.transport = "ipc" /\ x.side = y.side => x = y
        BY DEF Separate
      <4>4. l = o BY <2>7, <2>9, <2>11, <3>2, <4>1, <4>2, <4>3, PathsSeparate
      <4> QED BY <4>4
    <3> QED BY <3>1, <3>2
  <2>12. \A l \in L : \E c \in Value : Joins(moduleArray, file, l, c) BY <2>6 DEF Shown
  <2>13. {l \in AnyLink : \E c \in Value : Joins(moduleArray, file, l, c)} = L
    BY <2>8, <2>11, <2>12
  <2> QED BY <2>3, <2>10, <2>13
<1> QED BY <1>1, CanvasInductive, PTL

=============================================================================

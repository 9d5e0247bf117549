-------------------------- MODULE ControlGuiProofs --------------------------
(***************************************************************************)
(* Proofs about ControlGui, for any number of pages, users, configurations *)
(* and nodes, any FSM rules, any number of operations and of requests in   *)
(* flight.                                                                 *)
(***************************************************************************)
EXTENDS ControlGui, FiniteSetTheorems, TLAPS

PageFields == {"cfg", "loaded", "fsmrules", "connected", "ownerFlag", "idList",
               "selected", "selectednode", "opened", "buttons", "controls", "boxes"}
RequestFields == {"kind", "sess", "arg", "stage", "gone"}

Holders == Users \cup {None}
NodeStates == [state : StateSets \cup {NotAdded}, included : BOOLEAN]
States(f) == [Nodes(f) -> NodeStates]
List(f) == [Range(Tree[f]) -> NodeStates]
EventSet == [name : {"interlockChng", "stsChng"}, f : Configs,
             d : Holders \cup UNION {List(f) : f \in Configs}]

(***************************************************************************)
(* One page.                                                               *)
(***************************************************************************)

(* Before its tree is there a page has neither nodes nor buttons. *)
PageShape(p) ==
    /\ DOMAIN p = PageFields /\ p.cfg \in Configs
    /\ p.loaded \in BOOLEAN /\ p.opened \in BOOLEAN /\ p.ownerFlag \in {0, 1}
    /\ p.selected \in {0} \cup Nodes(p.cfg) /\ DOMAIN p.boxes = Nodes(p.cfg)
    /\ p.loaded => p.idList \in States(p.cfg)
    /\ ~p.loaded => DOMAIN p.idList = {} /\ p.selected = 0 /\ p.buttons = {}

(* Every node that is shown has its check box. *)
Boxed(p) == p.loaded => \A k \in DOMAIN p.boxes : (k = 1 \/ p.opened) => p.boxes[k] # "absent"

(* The buttons are commands that the FSM allows in the state shown. *)
Buttoned(p) ==
    p.selected # 0 => p.buttons \subseteq UNION {Rules[s] : s \in p.idList[p.selected].state}

GoodPage(p) == PageShape(p) /\ Boxed(p) /\ Buttoned(p)

(* Nothing is enabled without control. *)
Locked(p) ==
    (p.loaded /\ p.selected # 0 /\ p.ownerFlag = 0) =>
        ~p.controls /\ \A k \in DOMAIN p.boxes : p.boxes[k] # "enabled"

(***************************************************************************)
(* Its requests and events.  The requests that a page makes by itself are  *)
(* of its own configuration, and are dropped with it.                      *)
(***************************************************************************)

Own == {"tree", "fsm", "get", "post"}
Queue(q) == IsFiniteSet(DOMAIN q) /\ \A i \in DOMAIN q : DOMAIN q[i] = RequestFields

RequestOK(p, r) ==
    /\ r.kind \in Own \cup {"lock", "comm", "config"} /\ r.sess \in Configs
    /\ r.kind = "config" => r.arg \in Configs
    /\ r.gone \in BOOLEAN /\ (r.gone => r.stage # "served" /\ r.kind \notin Own)
    /\ r.stage = "free" => r.kind = "lock"
    /\ r.kind \in {"tree", "fsm", "post"} => r.stage = "served"
    /\ r.kind = "tree" => ~p.loaded
    /\ r.kind \in Own => r.sess = p.cfg
    /\ (r.kind = "get" /\ r.stage = "served") => r.arg.list \in List(p.cfg)
    /\ (r.kind = "lock" /\ r.stage = "served") => r.arg \in {"released", "taken", "refused"}

(* The tree is asked for once, and the first POST draws the lock. *)
TreeOnce(p, q) ==
    /\ \A i, j \in DOMAIN q : q[i].kind = "tree" /\ q[j].kind = "tree" => i = j
    /\ ~p.loaded => \E i \in DOMAIN q : q[i].kind = "tree"
FirstPost(p, q) == Locked(p) \/ \E i \in DOMAIN q : q[i].kind = "post"

EventOK(p, e) ==
    /\ e.name = "interlockChng" => e.d \in Holders
    /\ e.name = "stsChng" => e.f = p.cfg /\ e.d \in List(p.cfg)

ClientInv(p, q, ev) ==
    /\ GoodPage(p) /\ Queue(q) /\ TreeOnce(p, q) /\ FirstPost(p, q)
    /\ \A i \in DOMAIN q : RequestOK(p, q[i])
    /\ ev \in Seq(EventSet) /\ \A j \in DOMAIN ev : EventOK(p, ev[j])

(***************************************************************************)
(* What a page will show when everything on its way has arrived.  u is its *)
(* user; H and W are the holder and the one that the checker broadcast     *)
(* last, T and L the states of the tree and those it broadcast last.  A    *)
(* page that is doomed will be disturbed by what is on its way.            *)
(***************************************************************************)

NewsOf(q) == {i \in DOMAIN q : q[i].stage = "served" /\ q[i].kind \in {"get", "lock"}}

Doomed(p, q, ev) ==
    \/ \E j \in DOMAIN ev : ev[j].f # p.cfg
    \/ \E i, k \in NewsOf(q) : i # k
    \/ \E i \in NewsOf(q) : q[i].sess # p.cfg

Waiting(q) ==
    \E i \in DOMAIN q : q[i].kind = "tree" \/ (q[i].kind = "get" /\ q[i].stage = "sent")

Last(ev, name, j) ==
    /\ j \in DOMAIN ev /\ ev[j].name = name
    /\ \A k \in DOMAIN ev : k > j => ev[k].name # name
NoEvent(ev, name) == \A j \in DOMAIN ev : ev[j].name # name

FlagOK(u, p, H) == (p.ownerFlag = 1) <=> (H = u)

LockNews(u, p, r, H) ==
    /\ r.kind = "get" => r.arg.who = H
    /\ r.kind = "lock" => \/ r.arg = "taken" /\ H = u
                          \/ r.arg = "released" /\ H # u
                          \/ r.arg = "refused" /\ FlagOK(u, p, H)

(* The last event says what the checker knows.  Without one, and as long   *)
(* as the checker knows the holder, the answer on its way tells the truth, *)
(* or else the page knows it already.                                      *)
LockTold(u, p, q, ev, H, W) ==
    /\ \A j : Last(ev, "interlockChng", j) => ev[j].d = W
    /\ (NoEvent(ev, "interlockChng") /\ ~Waiting(q) /\ W = H) =>
          /\ NewsOf(q) = {} => FlagOK(u, p, H)
          /\ \A i \in NewsOf(q) : LockNews(u, p, q[i], H)

Shows(f, list, T) == \A k \in Nodes(f) : list[Tree[f][k]] = T[k]

(* The same for the states. *)
TreeTold(p, q, ev, T, L) ==
    /\ \A j : Last(ev, "stsChng", j) => Shows(p.cfg, ev[j].d, L)
    /\ (NoEvent(ev, "stsChng") /\ ~Waiting(q) /\ L = T) =>
          /\ (\A i \in NewsOf(q) : q[i].kind # "get") => p.idList = T
          /\ \A i \in NewsOf(q) : q[i].kind = "get" => Shows(p.cfg, q[i].arg.list, T)

Told(u, p, q, ev, H, W, T, L) ==
    ~Doomed(p, q, ev) => LockTold(u, p, q, ev, H, W) /\ TreeTold(p, q, ev, T, L)

(***************************************************************************)
(* The inductive invariant.                                                *)
(***************************************************************************)

ServerInv ==
    /\ cookie \in [Users -> Configs] /\ \A c \in Clients : usr[c] \in Users
    /\ whoInterlocked \in [Configs -> Holders] /\ whoValue \in [Configs -> Holders]
    /\ DOMAIN tree = Configs /\ \A f \in Configs : tree[f] \in States(f)
    /\ DOMAIN l1 = Configs /\ \A f \in Configs : l1[f] \in States(f)
    /\ DOMAIN pages = Clients /\ DOMAIN requests = Clients /\ DOMAIN events = Clients

ClientsInv == \A c \in Clients : ClientInv(pages[c], requests[c], events[c])

ToldNow(c) ==
    LET f == pages[c].cfg
    IN  Told(usr[c], pages[c], requests[c], events[c],
             whoInterlocked[f], whoValue[f], tree[f], l1[f])

ToldInv == \A c \in Clients \ disturbed : ToldNow(c)

IInv == ServerInv /\ ClientsInv /\ OnePageOneConfig /\ ToldInv

-----------------------------------------------------------------------------
(* The functions that redraw a page.                                       *)

(* What none of them changes. *)
Same(p, q) ==
    /\ DOMAIN q = PageFields /\ q.cfg = p.cfg /\ q.loaded = p.loaded
    /\ q.connected = p.connected /\ DOMAIN q.boxes = DOMAIN p.boxes

(* The lock is drawn as ownerFlag says. *)
LEMMA RedrawLock ==
    ASSUME NEW p, DOMAIN p = PageFields, NEW q, q = redrawLock(p)
    PROVE  /\ Same(p, q) /\ q.idList = p.idList /\ q.selected = p.selected
           /\ q.opened = p.opened /\ q.buttons = p.buttons /\ q.ownerFlag = p.ownerFlag
           /\ Locked(q) /\ (Boxed(p) => Boxed(q))
<1>1. /\ Same(p, q) /\ q.idList = p.idList /\ q.selected = p.selected
      /\ q.opened = p.opened /\ q.buttons = p.buttons /\ q.ownerFlag = p.ownerFlag
      /\ q.controls = (p.ownerFlag = 1)
      /\ \A k \in DOMAIN p.boxes :
            q.boxes[k] = IF p.boxes[k] = "absent" THEN "absent"
                         ELSE IF p.ownerFlag = 1 THEN "enabled" ELSE "disabled"
  BY DEF redrawLock, PageFields, Same
<1>2. Locked(q)
  <2> SUFFICES ASSUME q.ownerFlag = 0
               PROVE  ~q.controls /\ \A k \in DOMAIN q.boxes : q.boxes[k] # "enabled"
    BY Zenon DEF Locked
  <2>1. ~(p.ownerFlag = 1) BY <1>1
  <2>2. ~q.controls BY <1>1, <2>1, Zenon
  <2>3. \A k \in DOMAIN q.boxes : q.boxes[k] # "enabled" BY <1>1, <2>1 DEF Same
  <2> QED BY <2>2, <2>3, Zenon
<1>3. Boxed(p) => Boxed(q) BY <1>1 DEF Boxed, Same
<1> QED BY <1>1, <1>2, <1>3

(* A page on which every shown node has its box gets no new one. *)
LEMMA IncludeChecker ==
    ASSUME NEW p, DOMAIN p = PageFields, NEW q, q = includeChecker(p)
    PROVE  /\ Same(p, q) /\ q.idList = p.idList /\ q.selected = p.selected
           /\ q.opened = p.opened /\ q.buttons = p.buttons /\ q.ownerFlag = p.ownerFlag
           /\ Boxed(q) /\ (Boxed(p) /\ Locked(p) => Locked(q))
<1>1. /\ Same(p, q) /\ q.idList = p.idList /\ q.selected = p.selected
      /\ q.opened = p.opened /\ q.buttons = p.buttons /\ q.ownerFlag = p.ownerFlag
      /\ q.controls = p.controls
      /\ \A k \in DOMAIN p.boxes :
            q.boxes[k] = IF p.loaded /\ p.boxes[k] = "absent" /\ (k = 1 \/ p.opened)
                         THEN "enabled" ELSE p.boxes[k]
  BY DEF includeChecker, PageFields, Same
<1>2. Boxed(q) BY <1>1 DEF Boxed, Same
<1>3. Boxed(p) /\ Locked(p) => Locked(q) BY <1>1 DEF Boxed, Locked, Same
<1> QED BY <1>1, <1>2, <1>3

(* The handler of changed.jstree brings the buttons up to date. *)
LEMMA Changed ==
    ASSUME NEW p, DOMAIN p = PageFields, Boxed(p), NEW q, q = changed(p)
    PROVE  /\ Same(p, q) /\ q.idList = p.idList /\ q.selected = p.selected
           /\ q.opened = p.opened /\ q.ownerFlag = p.ownerFlag
           /\ p.selected = 0 => q = p
           /\ Locked(q) /\ Boxed(q) /\ Buttoned(q)
<1>1. CASE p.selected = 0
  BY <1>1 DEF changed, Same, Locked, Buttoned
<1>2. CASE p.selected # 0
  <2> DEFINE allowed == IF p.fsmrules
                        THEN UNION {Rules[s] : s \in p.idList[p.selected].state} ELSE {}
  <2>1. allowed \subseteq UNION {Rules[s] : s \in p.idList[p.selected].state} OBVIOUS
  <2> HIDE DEF allowed
  <2>2. PICK a : a = [p EXCEPT !.buttons = allowed, !.selectednode = p.selected] OBVIOUS
  <2>3. /\ Same(p, a) /\ a.idList = p.idList /\ a.selected = p.selected /\ a.boxes = p.boxes
        /\ a.opened = p.opened /\ a.ownerFlag = p.ownerFlag /\ a.buttons = allowed
    BY <2>2 DEF Same, PageFields
  <2>4. Boxed(a) BY <2>3 DEF Boxed, Same
  <2>5. PICK b : b = redrawLock(a) OBVIOUS
  <2>6. /\ Same(a, b) /\ b.idList = a.idList /\ b.selected = a.selected
        /\ b.opened = a.opened /\ b.buttons = a.buttons /\ b.ownerFlag = a.ownerFlag
        /\ Locked(b) /\ Boxed(b)
    BY <2>3, <2>4, <2>5, RedrawLock DEF Same
  <2>7. q = includeChecker(b) BY <1>2, <2>2, <2>5 DEF changed, allowed
  <2>8. /\ Same(b, q) /\ q.idList = b.idList /\ q.selected = b.selected
        /\ q.opened = b.opened /\ q.buttons = b.buttons /\ q.ownerFlag = b.ownerFlag
        /\ Boxed(q) /\ Locked(q)
    BY <2>6, <2>7, IncludeChecker DEF Same
  <2>9. Same(p, q) BY <2>3, <2>6, <2>8 DEF Same
  <2>10. Buttoned(q) BY <2>1, <2>3, <2>6, <2>8 DEF Buttoned
  <2> QED BY <1>2, <2>3, <2>6, <2>8, <2>9, <2>10
<1> QED BY <1>1, <1>2

(* Opening the tree draws the boxes before the lock. *)
LEMMA OpenNode ==
    ASSUME NEW p, DOMAIN p = PageFields, NEW q, q = open_node(p)
    PROVE  /\ Same(p, q) /\ q.idList = p.idList /\ q.selected = p.selected
           /\ q.opened = TRUE /\ q.buttons = p.buttons /\ q.ownerFlag = p.ownerFlag
           /\ Locked(q) /\ Boxed(q)
<1>1. PICK a : a = [p EXCEPT !.opened = TRUE] OBVIOUS
<1>2. /\ Same(p, a) /\ a.idList = p.idList /\ a.selected = p.selected
      /\ a.opened = TRUE /\ a.buttons = p.buttons /\ a.ownerFlag = p.ownerFlag
  BY <1>1 DEF Same, PageFields
<1>3. PICK b : b = includeChecker(a) OBVIOUS
<1>4. /\ Same(a, b) /\ b.idList = a.idList /\ b.selected = a.selected
      /\ b.opened = a.opened /\ b.buttons = a.buttons /\ b.ownerFlag = a.ownerFlag
      /\ Boxed(b)
  BY <1>2, <1>3, IncludeChecker DEF Same
<1>5. q = redrawLock(b) BY <1>1, <1>3 DEF open_node
<1>6. /\ Same(b, q) /\ q.idList = b.idList /\ q.selected = b.selected
      /\ q.opened = b.opened /\ q.buttons = b.buttons /\ q.ownerFlag = b.ownerFlag
      /\ Locked(q) /\ Boxed(q)
  BY <1>4, <1>5, RedrawLock DEF Same
<1> QED BY <1>2, <1>4, <1>6 DEF Same

-----------------------------------------------------------------------------
(* The handlers of a page.                                                 *)

(* The nodes of a tree are numbered from 1, the root. *)
LEMMA TreeFacts ==
    ASSUME NEW f \in Configs
    PROVE  /\ 1 \in Nodes(f) /\ Nodes(f) \subseteq Nat \ {0}
           /\ \A k \in Nodes(f) : Tree[f][k] \in Range(Tree[f])
           /\ \A k \in Nodes(f) : \A j \in 1..k : j \in Nodes(f)
           /\ \A k, j \in Nodes(f) : Tree[f][k] = Tree[f][j] => k = j
<1>1. Tree[f] \in Seq(STRING) /\ Tree[f] # <<>> BY GuiAssumption
<1>2. DOMAIN Tree[f] = 1..Len(Tree[f]) /\ Len(Tree[f]) \in Nat \ {0} BY <1>1
<1>3. \A k, j \in Nodes(f) : Tree[f][k] = Tree[f][j] => k = j
  BY GuiAssumption DEF Nodes, IsInjective
<1>4. \A k \in Nodes(f) : Tree[f][k] \in Range(Tree[f]) BY DEF Nodes, Range
<1> QED BY <1>2, <1>3, <1>4 DEF Nodes

(* A list with the names of the page's own tree is copied as a whole. *)
LEMMA CopiedList ==
    ASSUME NEW p, PageShape(p), NEW list \in List(p.cfg)
    PROVE  /\ Known(p, list)
           /\ p.loaded => /\ Copied(p, list) \in States(p.cfg)
                          /\ \A k \in Nodes(p.cfg) : Copied(p, list)[k] = list[Tree[p.cfg][k]]
           /\ ~p.loaded => DOMAIN Copied(p, list) = {}
<1> DEFINE f == p.cfg
<1>1. f \in Configs BY DEF PageShape
<1>2. /\ \A k \in Nodes(f) : Tree[f][k] \in Range(Tree[f])
      /\ \A k \in Nodes(f) : \A j \in 1..k : j \in Nodes(f)
  BY <1>1, TreeFacts
<1>3. \A k \in Nodes(f) : Tree[f][k] \in DOMAIN list /\ list[Tree[f][k]] \in NodeStates
  BY <1>2 DEF List
<1>4. DOMAIN p.idList = IF p.loaded THEN Nodes(f) ELSE {}
  BY DEF PageShape, States
<1>5. Known(p, list) BY <1>3, <1>4 DEF Known
<1>6. Copied(p, list) = [k \in DOMAIN p.idList |-> list[Tree[f][k]]]
  <2>1. ASSUME NEW k \in DOMAIN p.idList
        PROVE  \A j \in 1..k : Tree[f][j] \in DOMAIN list
    BY <1>2, <1>3, <1>4
  <2> QED BY <2>1 DEF Copied
<1>7. CASE p.loaded
  BY <1>3, <1>4, <1>5, <1>6, <1>7 DEF States
<1>8. CASE ~p.loaded
  BY <1>4, <1>5, <1>6, <1>8
<1> QED BY <1>7, <1>8

(* The shape of a redrawn page. *)
LEMMA SameShape ==
    ASSUME NEW p, PageShape(p), NEW q, Same(p, q), q.selected = p.selected,
           q.opened \in BOOLEAN, q.ownerFlag \in {0, 1},
           IF p.loaded THEN q.idList \in States(p.cfg)
           ELSE DOMAIN q.idList = {} /\ q.buttons = {}
    PROVE  PageShape(q)
BY DEF PageShape, Same

(* The page as the handler leaves it, with its list and flag as before. *)
Redrawn(p, q) ==
    Same(p, q) /\ GoodPage(q) /\ q.idList = p.idList /\ q.ownerFlag = p.ownerFlag

(* redrawLock keeps what a page shows. *)
LEMMA RedrawnPage ==
    ASSUME NEW p, GoodPage(p), NEW q, q = redrawLock(p)
    PROVE  Redrawn(p, q) /\ Locked(q)
<1>1. /\ Same(p, q) /\ q.idList = p.idList /\ q.selected = p.selected
      /\ q.opened = p.opened /\ q.buttons = p.buttons /\ q.ownerFlag = p.ownerFlag
      /\ Locked(q) /\ Boxed(q)
  BY RedrawLock DEF GoodPage, PageShape
<1>2. PageShape(q) BY <1>1, SameShape DEF GoodPage, PageShape
<1>3. Buttoned(q) BY <1>1 DEF Buttoned, GoodPage
<1> QED BY <1>1, <1>2, <1>3 DEF GoodPage, Redrawn

(* The buttons need not be up to date before changed.jstree. *)
LEMMA ChangedPage ==
    ASSUME NEW p, PageShape(p), Boxed(p), NEW q, q = changed(p)
    PROVE  Redrawn(p, q) /\ Locked(q)
<1>1. /\ Same(p, q) /\ q.idList = p.idList /\ q.selected = p.selected
      /\ q.opened = p.opened /\ q.ownerFlag = p.ownerFlag
      /\ p.selected = 0 => q = p
      /\ Locked(q) /\ Boxed(q) /\ Buttoned(q)
  BY Changed DEF PageShape
<1>2. PageShape(q) BY <1>1, SameShape DEF PageShape
<1> QED BY <1>1, <1>2 DEF GoodPage, Redrawn

(* The answers to the first POST and to a command redraw the page. *)
LEMMA UpdateStatePost ==
    ASSUME NEW p, GoodPage(p), NEW q, q = updateStatePost(p)
    PROVE  Redrawn(p, q) /\ Locked(q)
<1>1. PICK a : a = redrawLock(p) OBVIOUS
<1>2. Redrawn(p, a) BY <1>1, RedrawnPage
<1>3. Redrawn(a, q) /\ Locked(q)
  BY <1>1, <1>2, ChangedPage DEF updateStatePost, Redrawn, GoodPage
<1> QED BY <1>2, <1>3 DEF Redrawn, Same

(* Those to include and exclude leave the lock to changed.jstree. *)
LEMMA CommandDone ==
    ASSUME NEW p, GoodPage(p), NEW command, NEW q, q = commandDone(p, command)
    PROVE  Redrawn(p, q) /\ Locked(q)
BY UpdateStatePost, ChangedPage DEF commandDone, GoodPage

(* A page with another flag, list or connection before it is redrawn. *)
LEMMA FlaggedPage ==
    ASSUME NEW p, GoodPage(p), NEW x \in {0, 1}, NEW q, q = redrawLock([p EXCEPT !.ownerFlag = x])
    PROVE  Same(p, q) /\ GoodPage(q) /\ Locked(q) /\ q.idList = p.idList /\ q.ownerFlag = x
<1>1. PICK a : a = [p EXCEPT !.ownerFlag = x] OBVIOUS
<1>2. /\ Same(p, a) /\ a.idList = p.idList /\ a.selected = p.selected /\ a.boxes = p.boxes
      /\ a.opened = p.opened /\ a.buttons = p.buttons /\ a.ownerFlag = x
  BY <1>1 DEF Same, PageFields, GoodPage, PageShape
<1>3. PageShape(a) BY <1>2, SameShape DEF GoodPage, PageShape
<1>4. Boxed(a) /\ Buttoned(a) BY <1>2 DEF Boxed, Buttoned, GoodPage, Same
<1>5. Redrawn(a, q) /\ Locked(q) BY <1>1, <1>3, <1>4, RedrawnPage DEF GoodPage
<1> QED BY <1>2, <1>5 DEF Redrawn, Same

(* The event says who is in control. *)
LEMMA InterlockChng ==
    ASSUME NEW p, GoodPage(p), NEW u, NEW who, NEW q, q = interlockChng(p, u, who)
    PROVE  Same(p, q) /\ GoodPage(q) /\ Locked(q) /\ q.idList = p.idList /\ FlagOK(u, q, who)
<1>1. PICK x : x = IF who = u THEN 1 ELSE 0 OBVIOUS
<1>2. x \in {0, 1} BY <1>1
<1>3. q = redrawLock([p EXCEPT !.ownerFlag = x]) BY <1>1 DEF interlockChng
<1>4. Same(p, q) /\ GoodPage(q) /\ Locked(q) /\ q.idList = p.idList /\ q.ownerFlag = x
  BY <1>2, <1>3, FlaggedPage
<1> QED BY <1>1, <1>4 DEF FlagOK

(* The answer to a click on the lock; a refusal changes nothing. *)
LEMMA LockAnswer ==
    ASSUME NEW p, GoodPage(p), NEW msg \in {"released", "taken", "refused"},
           NEW q, q = lockAnswer(p, msg)
    PROVE  /\ Same(p, q) /\ GoodPage(q) /\ Locked(q) /\ q.idList = p.idList
           /\ q.ownerFlag = CASE msg = "released" -> 0 [] msg = "taken" -> 1
                              [] msg = "refused" -> p.ownerFlag
<1>1. PICK x : x = CASE msg = "released" -> 0 [] msg = "taken" -> 1
                     [] msg = "refused" -> p.ownerFlag
  OBVIOUS
<1>2. x \in {0, 1} BY <1>1 DEF GoodPage, PageShape
<1>3. q = redrawLock([p EXCEPT !.ownerFlag = x])
  BY <1>1 DEF lockAnswer, GoodPage, PageShape, PageFields
<1>4. Same(p, q) /\ GoodPage(q) /\ Locked(q) /\ q.idList = p.idList /\ q.ownerFlag = x
  BY <1>2, <1>3, FlaggedPage
<1> QED BY <1>1, <1>4

(* The page shows a list of states. *)
Lists(q, list) == q.loaded => \A k \in Nodes(q.cfg) : q.idList[k] = list[Tree[q.cfg][k]]

(* The event says which states the nodes are in. *)
LEMMA StsChng ==
    ASSUME NEW p, GoodPage(p), NEW list \in List(p.cfg), NEW q, q = stsChng(p, list)
    PROVE  /\ Same(p, q) /\ GoodPage(q) /\ Locked(q) /\ Lists(q, list)
           /\ q.ownerFlag = p.ownerFlag
<1>1. PICK l : l = Copied(p, list) OBVIOUS
<1>2. /\ p.loaded => l \in States(p.cfg) /\ \A k \in Nodes(p.cfg) : l[k] = list[Tree[p.cfg][k]]
      /\ ~p.loaded => DOMAIN l = {}
  BY <1>1, CopiedList DEF GoodPage
<1>3. PICK a : a = [p EXCEPT !.idList = l] OBVIOUS
<1>4. /\ Same(p, a) /\ a.idList = l /\ a.selected = p.selected /\ a.boxes = p.boxes
      /\ a.opened = p.opened /\ a.buttons = p.buttons /\ a.ownerFlag = p.ownerFlag
  BY <1>3 DEF Same, PageFields, GoodPage, PageShape
<1>5. PICK b : b = redrawLock(a) OBVIOUS
<1>6. Boxed(a) BY <1>4 DEF Boxed, GoodPage, Same
<1>7. /\ Same(a, b) /\ b.idList = a.idList /\ b.selected = a.selected
      /\ b.opened = a.opened /\ b.buttons = a.buttons /\ b.ownerFlag = a.ownerFlag
      /\ Boxed(b)
  BY <1>4, <1>5, <1>6, RedrawLock DEF Same
<1>8. Same(p, b) BY <1>4, <1>7 DEF Same
<1>9. PageShape(b)
  <2>1. /\ b.selected = p.selected /\ b.opened \in BOOLEAN /\ b.ownerFlag \in {0, 1}
        /\ IF p.loaded THEN b.idList \in States(p.cfg)
           ELSE DOMAIN b.idList = {} /\ b.buttons = {}
    BY <1>2, <1>4, <1>7 DEF GoodPage, PageShape
  <2> QED BY <1>8, <2>1, SameShape DEF GoodPage
<1>10. q = changed(b) BY <1>1, <1>3, <1>5 DEF stsChng
<1>11. Redrawn(b, q) /\ Locked(q) BY <1>7, <1>9, <1>10, ChangedPage
<1>12. Lists(q, list) BY <1>2, <1>4, <1>7, <1>11 DEF Lists, Redrawn, Same
<1> QED BY <1>4, <1>7, <1>8, <1>11, <1>12 DEF Redrawn, Same

(* The snapshot says both. *)
LEMMA UpdateStateGet ==
    ASSUME NEW p, GoodPage(p), NEW u, NEW who, NEW list \in List(p.cfg),
           NEW q, q = updateStateGet(p, u, who, list)
    PROVE  Same(p, q) /\ GoodPage(q) /\ Locked(q) /\ Lists(q, list) /\ FlagOK(u, q, who)
<1>1. PICK l : l = Copied(p, list) OBVIOUS
<1>2. /\ p.loaded => l \in States(p.cfg) /\ \A k \in Nodes(p.cfg) : l[k] = list[Tree[p.cfg][k]]
      /\ ~p.loaded => DOMAIN l = {}
      /\ Known(p, list)
  BY <1>1, CopiedList DEF GoodPage
<1>3. PICK x : x = IF who = u THEN 1 ELSE 0 OBVIOUS
<1>4. x \in {0, 1} /\ ((x = 1) <=> (who = u)) BY <1>3
<1>5. PICK a : a = [p EXCEPT !.ownerFlag = x, !.idList = l] OBVIOUS
<1>6. /\ Same(p, a) /\ a.idList = l /\ a.selected = p.selected /\ a.boxes = p.boxes
      /\ a.opened = p.opened /\ a.buttons = p.buttons /\ a.ownerFlag = x
  BY <1>5 DEF Same, PageFields, GoodPage, PageShape
<1>7. Boxed(a) BY <1>6 DEF Boxed, GoodPage, Same
<1>8. PageShape(a) BY <1>2, <1>4, <1>6, SameShape DEF GoodPage, PageShape
<1>9. CASE p.selected # 0
  <2>1. PICK b : b = changed(a) OBVIOUS
  <2>2. Redrawn(a, b) BY <1>7, <1>8, <2>1, ChangedPage
  <2>3. q = redrawLock(b) BY <1>1, <1>2, <1>3, <1>5, <1>9, <2>1 DEF updateStateGet
  <2>4. Redrawn(b, q) /\ Locked(q) BY <2>2, <2>3, RedrawnPage DEF Redrawn
  <2>5. Same(p, q) /\ GoodPage(q) /\ q.idList = l /\ q.ownerFlag = x
    BY <1>6, <2>2, <2>4 DEF Redrawn, Same
  <2> QED BY <1>2, <1>4, <2>4, <2>5 DEF Lists, FlagOK, Same
<1>10. CASE p.selected = 0
  <2>1. q = a BY <1>1, <1>3, <1>5, <1>10 DEF updateStateGet
  <2>2. Buttoned(q) /\ Locked(q) BY <1>6, <1>10, <2>1 DEF Buttoned, Locked
  <2> QED BY <1>2, <1>4, <1>6, <1>7, <1>8, <2>1, <2>2 DEF Lists, FlagOK, Same, GoodPage
<1> QED BY <1>9, <1>10

(* The tree is there: the page has its nodes, in no state yet. *)
LEMMA LoadedPage ==
    ASSUME NEW p, GoodPage(p), ~p.loaded, NEW q, q = loaded(p)
    PROVE  /\ GoodPage(q) /\ q.cfg = p.cfg /\ q.loaded = TRUE
           /\ q.connected = p.connected /\ q.ownerFlag = p.ownerFlag
<1> DEFINE f == p.cfg
<1>1. f \in Configs /\ DOMAIN p = PageFields BY DEF GoodPage, PageShape
<1>2. PICK k : k = IF p.selectednode = 0 THEN 1
                   ELSE IF p.selectednode \in Nodes(f) THEN p.selectednode ELSE 0
  OBVIOUS
<1>3. k \in {0} \cup Nodes(f) BY <1>1, <1>2, TreeFacts
<1>4. PICK l : l = [n \in Nodes(f) |-> [state |-> NotAdded, included |-> TRUE]] OBVIOUS
<1>5. l \in States(f) BY <1>4 DEF States, NodeStates
<1>6. PICK a : a = [p EXCEPT !.loaded = TRUE, !.selected = k, !.idList = l] OBVIOUS
<1>7. /\ DOMAIN a = PageFields /\ a.cfg = f /\ a.loaded = TRUE /\ a.selected = k
      /\ a.connected = p.connected /\ a.ownerFlag = p.ownerFlag /\ a.idList = l
      /\ a.opened = p.opened /\ a.buttons = p.buttons /\ DOMAIN a.boxes = DOMAIN p.boxes
  BY <1>1, <1>6 DEF PageFields
<1>8. PICK b : b = IF k > 1 THEN open_node(a) ELSE a OBVIOUS
<1>9. /\ Same(a, b) /\ b.idList = l /\ b.selected = k /\ b.opened \in BOOLEAN
      /\ b.buttons = {} /\ b.ownerFlag = p.ownerFlag
  <2>1. p.opened \in BOOLEAN /\ p.buttons = {} BY DEF GoodPage, PageShape
  <2>2. CASE k > 1
    <3>1. b = open_node(a) BY <1>8, <2>2
    <3>2. /\ Same(a, b) /\ b.idList = a.idList /\ b.selected = a.selected
          /\ b.opened = TRUE /\ b.buttons = a.buttons /\ b.ownerFlag = a.ownerFlag
      BY <1>7, <3>1, OpenNode
    <3> QED BY <1>7, <2>1, <3>2
  <2>3. CASE ~(k > 1)
    <3>1. b = a BY <1>8, <2>3
    <3>2. Same(a, b) BY <1>7, <3>1 DEF Same
    <3> QED BY <1>7, <2>1, <3>1, <3>2
  <2> QED BY <2>2, <2>3
<1>10. q = includeChecker(b) BY <1>2, <1>4, <1>6, <1>8 DEF loaded
<1>11. /\ Same(b, q) /\ q.idList = b.idList /\ q.selected = b.selected
       /\ q.opened = b.opened /\ q.buttons = b.buttons /\ q.ownerFlag = b.ownerFlag
       /\ Boxed(q)
  BY <1>9, <1>10, IncludeChecker DEF Same
<1>12. PageShape(q)
  BY <1>1, <1>3, <1>5, <1>7, <1>9, <1>11 DEF PageShape, GoodPage, Same
<1>13. Buttoned(q) BY <1>9, <1>11 DEF Buttoned
<1> QED BY <1>7, <1>9, <1>11, <1>12, <1>13 DEF GoodPage, Same

(* The FSM rules and the connection do not show. *)
LEMMA QuietPage ==
    ASSUME NEW p, GoodPage(p), NEW x, NEW q,
           q = [p EXCEPT !.fsmrules = x] \/ q = [p EXCEPT !.connected = x]
    PROVE  /\ GoodPage(q) /\ q.cfg = p.cfg /\ q.loaded = p.loaded /\ q.idList = p.idList
           /\ q.ownerFlag = p.ownerFlag /\ (Locked(p) => Locked(q))
<1>1. /\ DOMAIN q = PageFields /\ q.cfg = p.cfg /\ q.loaded = p.loaded
      /\ q.ownerFlag = p.ownerFlag /\ q.idList = p.idList /\ q.selected = p.selected
      /\ q.opened = p.opened /\ q.buttons = p.buttons /\ q.boxes = p.boxes
      /\ q.controls = p.controls
  BY DEF GoodPage, PageShape, PageFields
<1>2. PageShape(q) BY <1>1 DEF GoodPage, PageShape
<1>3. Boxed(q) /\ Buttoned(q) BY <1>1 DEF GoodPage, Boxed, Buttoned
<1>4. Locked(p) => Locked(q) BY <1>1 DEF Locked
<1> QED BY <1>1, <1>2, <1>3, <1>4 DEF GoodPage

(* Another node is selected. *)
LEMMA SelectedPage ==
    ASSUME NEW p, GoodPage(p), p.loaded, NEW k \in Nodes(p.cfg),
           NEW q, q = changed([p EXCEPT !.selected = k])
    PROVE  Redrawn(p, q) /\ Locked(q)
<1>1. PICK a : a = [p EXCEPT !.selected = k] OBVIOUS
<1>2. /\ Same(p, a) /\ a.selected = k /\ a.ownerFlag = p.ownerFlag /\ a.idList = p.idList
      /\ a.opened = p.opened /\ a.buttons = p.buttons /\ a.boxes = p.boxes
  BY <1>1 DEF GoodPage, PageShape, PageFields, Same
<1>3. PageShape(a) BY <1>2 DEF GoodPage, PageShape, Same
<1>4. Boxed(a) BY <1>2 DEF GoodPage, Boxed, Same
<1>5. Redrawn(a, q) /\ Locked(q) BY <1>1, <1>3, <1>4, ChangedPage
<1> QED BY <1>2, <1>5 DEF Redrawn, Same

(* The tree is opened. *)
LEMMA OpenedPage ==
    ASSUME NEW p, GoodPage(p), NEW q, q = open_node(p)
    PROVE  Redrawn(p, q) /\ Locked(q)
<1>1. /\ Same(p, q) /\ q.idList = p.idList /\ q.selected = p.selected
      /\ q.opened = TRUE /\ q.buttons = p.buttons /\ q.ownerFlag = p.ownerFlag
      /\ Locked(q) /\ Boxed(q)
  BY OpenNode DEF GoodPage, PageShape
<1>2. PageShape(q) BY <1>1, SameShape DEF GoodPage, PageShape
<1>3. Buttoned(q) BY <1>1 DEF Buttoned, GoodPage
<1> QED BY <1>1, <1>2, <1>3 DEF GoodPage, Redrawn

(* A page that has just been opened. *)
LEMMA NewPage ==
    ASSUME NEW f \in Configs, NEW s, NEW q, q = Page(f, s)
    PROVE  GoodPage(q) /\ q.cfg = f /\ ~q.loaded /\ q.ownerFlag = 0 /\ Locked(q)
<1>1. /\ DOMAIN q = PageFields /\ q.cfg = f /\ q.loaded = FALSE /\ q.ownerFlag = 0
      /\ q.selected = 0 /\ q.opened = FALSE /\ q.buttons = {} /\ DOMAIN q.boxes = Nodes(f)
      /\ DOMAIN q.idList = {}
  BY DEF Page, PageFields
<1>2. PageShape(q) BY <1>1 DEF PageShape
<1>3. Boxed(q) /\ Buttoned(q) /\ Locked(q) BY <1>1 DEF Boxed, Buttoned, Locked
<1> QED BY <1>1, <1>2, <1>3 DEF GoodPage

-----------------------------------------------------------------------------
(* The requests of a page.                                                 *)

(* There is always a free number. *)
LEMMA FreeNumber ==
    ASSUME NEW q, IsFiniteSet(DOMAIN q)
    PROVE  Free(q) \notin DOMAIN q
<1> DEFINE n == Cardinality(DOMAIN q)
<1>1. n \in Nat BY FS_CardinalityType
<1>2. \E k \in 1..(n + 1) : k \notin DOMAIN q
  <2> SUFFICES ASSUME 1..(n + 1) \subseteq DOMAIN q PROVE FALSE
    OBVIOUS
  <2>1. Cardinality(1..(n + 1)) <= n BY FS_Subset
  <2>2. Cardinality(1..(n + 1)) = n + 1 BY <1>1, FS_Interval
  <2> QED BY <1>1, <2>1, <2>2
<1> QED BY <1>2 DEF Free

(* q is r and one more request. *)
Adds(q, r, n, new) ==
    /\ DOMAIN q = DOMAIN r \cup {n} /\ n \notin DOMAIN r /\ q[n] = new
    /\ \A i \in DOMAIN r : q[i] = r[i]

(* One more request. *)
LEMMA WithOne ==
    ASSUME NEW r, Queue(r), NEW new, DOMAIN new = RequestFields, NEW q, q = With(r, new)
    PROVE  Queue(q) /\ \E n : Adds(q, r, n, new)
<1>1. PICK n : n = Free(r) OBVIOUS
<1>2. n \notin DOMAIN r BY <1>1, FreeNumber DEF Queue
<1>3. q = [i \in DOMAIN r \cup {n} |-> IF i \in DOMAIN r THEN r[i] ELSE new]
  BY <1>1 DEF With
<1>4. Adds(q, r, n, new) BY <1>2, <1>3 DEF Adds
<1>5. IsFiniteSet(DOMAIN r \cup {n}) BY FS_AddElement DEF Queue
<1>6. Queue(q) BY <1>4, <1>5 DEF Queue, Adds
<1> QED BY <1>4, <1>6

(* q is r without the request i. *)
Drops(q, r, i) == DOMAIN q = DOMAIN r \ {i} /\ \A j \in DOMAIN r \ {i} : q[j] = r[j]

(* One request less. *)
LEMMA WithoutOne ==
    ASSUME NEW r, Queue(r), NEW i, NEW q, q = Without(r, i)
    PROVE  Queue(q) /\ Drops(q, r, i)
<1>1. Drops(q, r, i) BY DEF Drops, Without, Restrict
<1>2. IsFiniteSet(DOMAIN r \ {i}) BY FS_RemoveElement DEF Queue
<1> QED BY <1>1, <1>2 DEF Queue, Drops

(* One request is changed. *)
Puts(q, r, i, new) ==
    /\ DOMAIN q = DOMAIN r /\ q[i] = new
    /\ \A j \in DOMAIN r \ {i} : q[j] = r[j]

-----------------------------------------------------------------------------
(* Steps that one page is not told of.                                     *)

(* The news on the way is the same. *)
SameNews(q, r) ==
    /\ NewsOf(q) = NewsOf(r) /\ \A i \in NewsOf(r) : q[i] = r[i]
    /\ Waiting(q) <=> Waiting(r)

(* Then the page is told the same. *)
LEMMA NoNews ==
    ASSUME NEW u, NEW p, NEW q, NEW r, NEW ev, NEW H, NEW W, NEW T, NEW L,
           Told(u, p, r, ev, H, W, T, L), SameNews(q, r)
    PROVE  Told(u, p, q, ev, H, W, T, L)
<1>1. Doomed(p, q, ev) <=> Doomed(p, r, ev) BY DEF SameNews, Doomed
<1>2. LockTold(u, p, r, ev, H, W) => LockTold(u, p, q, ev, H, W)
  BY DEF SameNews, LockTold
<1>3. TreeTold(p, r, ev, T, L) => TreeTold(p, q, ev, T, L)
  BY DEF SameNews, TreeTold
<1> QED BY <1>1, <1>2, <1>3 DEF Told

(* The page shows the same. *)
LEMMA SameView ==
    ASSUME NEW u, NEW p, NEW a, NEW q, NEW ev, NEW H, NEW W, NEW T, NEW L,
           Told(u, a, q, ev, H, W, T, L),
           p.cfg = a.cfg, p.idList = a.idList, p.ownerFlag = a.ownerFlag
    PROVE  Told(u, p, q, ev, H, W, T, L)
<1>1. Doomed(p, q, ev) <=> Doomed(a, q, ev) BY DEF Doomed
<1>2. \A r : LockNews(u, a, r, H) <=> LockNews(u, p, r, H) BY DEF LockNews, FlagOK
<1>3. LockTold(u, a, q, ev, H, W) => LockTold(u, p, q, ev, H, W)
  BY <1>2 DEF LockTold, FlagOK
<1>4. TreeTold(a, q, ev, T, L) => TreeTold(p, q, ev, T, L)
  BY DEF TreeTold
<1> QED BY <1>1, <1>3, <1>4 DEF Told

(* The server moves away from what has been broadcast. *)
LEMMA ServerMoves ==
    ASSUME NEW u, NEW p, NEW q, NEW ev, NEW H, NEW H1, NEW W, NEW T, NEW T1, NEW L,
           Told(u, p, q, ev, H, W, T, L), H1 = H \/ H1 # W, T1 = T \/ T1 # L
    PROVE  Told(u, p, q, ev, H1, W, T1, L)
<1>1. LockTold(u, p, q, ev, H, W) => LockTold(u, p, q, ev, H1, W)
  BY DEF LockTold
<1>2. TreeTold(p, q, ev, T, L) => TreeTold(p, q, ev, T1, L)
  BY DEF TreeTold
<1> QED BY <1>1, <1>2 DEF Told

(* Requests that carry no news. *)
LEMMA AddsQuietly ==
    ASSUME NEW q, NEW r, NEW n, NEW new, Adds(q, r, n, new),
           new.kind \notin {"get", "tree"}, new.kind = "lock" => new.stage # "served"
    PROVE  SameNews(q, r)
<1>1. \A i \in DOMAIN q : i \in NewsOf(q) <=> i \in NewsOf(r)
  BY DEF NewsOf, Adds
<1>2. Waiting(q) <=> Waiting(r) BY DEF Waiting, Adds
<1>3. \A i \in NewsOf(r) : q[i] = r[i] BY DEF NewsOf, Adds
<1>4. NewsOf(q) = NewsOf(r) BY <1>1 DEF NewsOf, Adds
<1> QED BY <1>2, <1>3, <1>4 DEF SameNews

(* One of them is taken away. *)
LEMMA DropsQuietly ==
    ASSUME NEW q, NEW r, NEW i, Drops(q, r, i), i \in DOMAIN r, i \notin NewsOf(r),
           r[i].kind \notin {"get", "tree"}
    PROVE  SameNews(q, r)
<1>1. NewsOf(q) = NewsOf(r) BY DEF NewsOf, Drops
<1>2. Waiting(q) <=> Waiting(r) BY DEF Waiting, Drops
<1>3. \A j \in NewsOf(r) : q[j] = r[j] BY DEF NewsOf, Drops
<1> QED BY <1>1, <1>2, <1>3 DEF SameNews

(* One of them is changed. *)
LEMMA PutsQuietly ==
    ASSUME NEW q, NEW r, NEW i \in DOMAIN r, NEW new, Puts(q, r, i, new),
           i \notin NewsOf(r), new.kind = r[i].kind, new.kind \notin {"get", "tree"},
           new.kind = "lock" => new.stage # "served"
    PROVE  SameNews(q, r)
<1>1. NewsOf(q) = NewsOf(r) BY DEF NewsOf, Puts
<1>2. Waiting(q) <=> Waiting(r) BY DEF Waiting, Puts
<1>3. \A j \in NewsOf(r) : q[j] = r[j] BY DEF NewsOf, Puts
<1> QED BY <1>1, <1>2, <1>3 DEF SameNews

-----------------------------------------------------------------------------
(* The invariant of one page.                                              *)

(* The page is redrawn. *)
LEMMA PageStep ==
    ASSUME NEW a, NEW p, NEW q, NEW ev, ClientInv(a, q, ev),
           GoodPage(p), p.cfg = a.cfg, p.loaded = a.loaded, FirstPost(p, q)
    PROVE  ClientInv(p, q, ev)
<1>1. \A r : RequestOK(a, r) => RequestOK(p, r) BY DEF RequestOK
<1>2. \A e : EventOK(a, e) => EventOK(p, e) BY DEF EventOK
<1>3. TreeOnce(p, q) BY DEF ClientInv, TreeOnce
<1> QED BY <1>1, <1>2, <1>3 DEF ClientInv

(* A request is sent. *)
LEMMA AddStep ==
    ASSUME NEW p, NEW q, NEW r, NEW ev, ClientInv(p, r, ev), Queue(q),
           NEW n, NEW new, Adds(q, r, n, new), new.kind # "tree", RequestOK(p, new)
    PROVE  ClientInv(p, q, ev)
<1>1. \A i \in DOMAIN q : RequestOK(p, q[i]) BY DEF ClientInv, Adds
<1>2. TreeOnce(p, q) BY DEF ClientInv, TreeOnce, Adds
<1>3. FirstPost(p, q) BY DEF ClientInv, FirstPost, Adds
<1> QED BY <1>1, <1>2, <1>3 DEF ClientInv

(* A request is answered or lost. *)
LEMMA DropStep ==
    ASSUME NEW p, NEW q, NEW r, NEW ev, ClientInv(p, r, ev), Queue(q),
           NEW i \in DOMAIN r, Drops(q, r, i), r[i].kind # "tree",
           Locked(p) \/ r[i].kind # "post"
    PROVE  ClientInv(p, q, ev)
<1>1. \A j \in DOMAIN q : RequestOK(p, q[j]) BY DEF ClientInv, Drops
<1>2. TreeOnce(p, q) BY DEF ClientInv, TreeOnce, Drops
<1>3. FirstPost(p, q) BY DEF ClientInv, FirstPost, Drops
<1> QED BY <1>1, <1>2, <1>3 DEF ClientInv

(* A request is served. *)
LEMMA PutStep ==
    ASSUME NEW p, NEW q, NEW r, NEW ev, ClientInv(p, r, ev),
           NEW i \in DOMAIN r, NEW new, Puts(q, r, i, new), DOMAIN new = RequestFields,
           new.kind = r[i].kind, RequestOK(p, new)
    PROVE  ClientInv(p, q, ev)
<1>1. \A j \in DOMAIN q : RequestOK(p, q[j]) BY DEF ClientInv, Puts
<1>2. TreeOnce(p, q) BY DEF ClientInv, TreeOnce, Puts
<1>3. FirstPost(p, q) BY DEF ClientInv, FirstPost, Puts
<1>4. Queue(q) BY DEF ClientInv, Queue, Puts
<1> QED BY <1>1, <1>2, <1>3, <1>4 DEF ClientInv

(***************************************************************************)
(* From one page to the system.  A step that concerns the page c leaves    *)
(* the other pages alone, and may move the server away from what it has    *)
(* broadcast; the pages for which it does worse are disturbed.             *)
(***************************************************************************)

Alone(c) == \A d \in Clients \ {c} : usr[d] # usr[c]
SessionOK(k, p, q) ==
    k = p.cfg /\ \A i \in DOMAIN q : q[i].gone \/ q[i].kind = "config" \/ q[i].sess = p.cfg

Apart(c) ==
    /\ DOMAIN pages' = Clients /\ \A d \in Clients \ {c} : pages'[d] = pages[d]
    /\ DOMAIN requests' = Clients /\ \A d \in Clients \ {c} : requests'[d] = requests[d]
    /\ DOMAIN events' = Clients /\ \A d \in Clients \ {c} : events'[d] = events[d]

Moves(f) ==
    /\ whoValue'[f] = whoValue[f] /\ l1'[f] = l1[f]
    /\ whoInterlocked'[f] = whoInterlocked[f] \/ whoInterlocked'[f] # whoValue[f]
    /\ tree'[f] = tree[f] \/ tree'[f] # l1[f]

Sessions(c) ==
    /\ usr' = usr /\ cookie' \in [Users -> Configs]
    /\ \A u \in Users \ {usr[c]} : cookie'[u] = cookie[u]
    /\ Alone(c) => SessionOK(cookie'[usr[c]], pages'[c], requests'[c])

(* Such a step preserves the invariant if it does so for c. *)
LEMMA OneClient ==
    ASSUME IInv, NEW c \in Clients, Apart(c), Sessions(c), ServerInv',
           ClientInv(pages'[c], requests'[c], events'[c]),
           \A d \in Clients \ {c} : d \notin disturbed' =>
                                       d \notin disturbed /\ Moves(pages[d].cfg),
           c \notin disturbed' => ToldNow(c)'
    PROVE  IInv'
<1>1. ClientsInv' BY DEF IInv, ClientsInv, Apart
<1>2. OnePageOneConfig'
  <2> SUFFICES ASSUME NEW d \in Clients, \A e \in Clients \ {d} : usr[e] # usr[d]
               PROVE  SessionOK(cookie'[usr[d]], pages'[d], requests'[d])
    BY DEF OnePageOneConfig, Sessions, SessionOK
  <2>1. CASE d = c BY <2>1 DEF Sessions, Alone
  <2>2. CASE d # c
    <3>1. SessionOK(cookie[usr[d]], pages[d], requests[d])
      BY DEF IInv, OnePageOneConfig, SessionOK
    <3>2. usr[d] \in Users \ {usr[c]} BY <2>2 DEF IInv, ServerInv
    <3>3. cookie'[usr[d]] = cookie[usr[d]] BY <3>2 DEF Sessions
    <3> QED BY <2>2, <3>1, <3>3 DEF Apart
  <2> QED BY <2>1, <2>2
<1>3. ToldInv'
  <2> SUFFICES ASSUME NEW d \in Clients, d # c, d \notin disturbed' PROVE ToldNow(d)'
    BY DEF ToldInv
  <2> DEFINE f == pages[d].cfg
  <2>1. d \notin disturbed /\ Moves(f) OBVIOUS
  <2>2. Told(usr[d], pages[d], requests[d], events[d],
             whoInterlocked[f], whoValue[f], tree[f], l1[f])
    BY <2>1 DEF IInv, ToldInv, ToldNow
  <2>3. Told(usr[d], pages[d], requests[d], events[d],
             whoInterlocked'[f], whoValue[f], tree'[f], l1[f])
    BY <2>1, <2>2, ServerMoves DEF Moves
  <2>4. /\ usr'[d] = usr[d] /\ pages'[d] = pages[d] /\ requests'[d] = requests[d]
        /\ events'[d] = events[d] /\ whoValue'[f] = whoValue[f] /\ l1'[f] = l1[f]
    BY <2>1 DEF Apart, Moves, Sessions
  <2>5. Told(usr'[d], pages'[d], requests'[d], events'[d], whoInterlocked'[pages'[d].cfg],
             whoValue'[pages'[d].cfg], tree'[pages'[d].cfg], l1'[pages'[d].cfg])
    BY <2>3, <2>4
  <2> QED BY <2>5 DEF ToldNow
<1> QED BY <1>1, <1>2, <1>3 DEF IInv

(* The server is as it was. *)
LEMMA SameServer ==
    ASSUME IInv, UNCHANGED <<usr, whoInterlocked, tree, polling>>, cookie' \in [Users -> Configs],
           DOMAIN pages' = Clients, DOMAIN requests' = Clients, DOMAIN events' = Clients
    PROVE  ServerInv' /\ \A f : Moves(f)
BY DEF IInv, ServerInv, Moves, polling

(* What the page c is told is its own matter then. *)
LEMMA ToldLater ==
    ASSUME NEW c \in Clients, UNCHANGED <<usr, whoInterlocked, tree, polling>>,
           NEW f, pages'[c].cfg = f,
           Told(usr[c], pages'[c], requests'[c], events'[c],
                whoInterlocked[f], whoValue[f], tree[f], l1[f])
    PROVE  ToldNow(c)'
BY DEF ToldNow, polling

-----------------------------------------------------------------------------
(* The users' clicks.                                                      *)

(* A click that sends a request. *)
LEMMA SendStep ==
    ASSUME IInv, NEW c \in Clients, NEW kind \in {"lock", "comm", "config"}, NEW arg,
           kind = "config" => arg \in Configs,
           Send(c, Request(kind, cookie[usr[c]], arg)),
           UNCHANGED <<usr, cookie, server, polling, pages, events, disturbed>>
    PROVE  IInv'
<1> DEFINE p == pages[c]  r == requests[c]  ev == events[c]
<1>1. PICK new : new = Request(kind, cookie[usr[c]], arg) OBVIOUS
<1>2. /\ DOMAIN new = RequestFields /\ new.kind = kind /\ new.arg = arg
      /\ new.sess = cookie[usr[c]] /\ new.stage = "sent" /\ new.gone = FALSE
  BY <1>1 DEF Request, RequestFields
<1>3. ClientInv(p, r, ev) BY DEF IInv, ClientsInv
<1>4. cookie[usr[c]] \in Configs BY DEF IInv, ServerInv
<1>5. requests' = [requests EXCEPT ![c] = With(r, new)] BY <1>1 DEF Send
<1>6. PICK q : q = With(r, new) OBVIOUS
<1>7. Apart(c) /\ requests'[c] = q BY <1>5, <1>6 DEF Apart, IInv, ServerInv
<1>8. Queue(q) /\ \E n : Adds(q, r, n, new) BY <1>2, <1>3, <1>6, WithOne DEF ClientInv
<1>9. PICK n : Adds(q, r, n, new) BY <1>8
<1>10. RequestOK(p, new) BY <1>2, <1>4 DEF RequestOK, Own
<1>11. ClientInv(p, q, ev) BY <1>2, <1>3, <1>8, <1>9, <1>10, AddStep
<1>12. SameNews(q, r) BY <1>2, <1>9, AddsQuietly
<1>13. Sessions(c)
  <2>1. cookie' \in [Users -> Configs] BY DEF IInv, ServerInv
  <2>2. ASSUME Alone(c) PROVE SessionOK(cookie[usr[c]], p, q)
    <3>1. SessionOK(cookie[usr[c]], p, r)
      BY <2>2 DEF IInv, OnePageOneConfig, Alone, SessionOK
    <3> QED BY <1>2, <1>9, <3>1 DEF SessionOK, Adds
  <2> QED BY <1>7, <2>1, <2>2 DEF Sessions
<1>14. ServerInv' /\ \A f : Moves(f) BY <1>7, <1>13, SameServer DEF Apart, Sessions, server
<1>15. ASSUME c \notin disturbed' PROVE ToldNow(c)'
  <2> DEFINE f == p.cfg
  <2>1. Told(usr[c], p, r, ev, whoInterlocked[f], whoValue[f], tree[f], l1[f])
    BY <1>15 DEF IInv, ToldInv, ToldNow
  <2>2. Told(usr[c], p, q, ev, whoInterlocked[f], whoValue[f], tree[f], l1[f])
    BY <1>12, <2>1, NoNews
  <2> QED BY <1>7, <2>2, ToldLater DEF server
<1> QED BY <1>7, <1>11, <1>13, <1>14, <1>15, OneClient

(* A click, or a connection, that only changes the page. *)
LEMMA ViewStep ==
    ASSUME IInv, NEW c \in Clients, NEW p, pages' = [pages EXCEPT ![c] = p],
           GoodPage(p), p.cfg = pages[c].cfg, p.loaded = pages[c].loaded,
           p.idList = pages[c].idList, p.ownerFlag = pages[c].ownerFlag,
           Locked(pages[c]) => Locked(p),
           UNCHANGED <<usr, cookie, server, polling, events, requests, disturbed>>
    PROVE  IInv'
<1> DEFINE a == pages[c]  q == requests[c]  ev == events[c]
<1>1. Apart(c) /\ pages'[c] = p BY DEF Apart, IInv, ServerInv
<1>2. ClientInv(a, q, ev) BY DEF IInv, ClientsInv
<1>3. FirstPost(p, q) BY <1>2 DEF FirstPost, ClientInv
<1>4. ClientInv(p, q, ev) BY <1>2, <1>3, PageStep
<1>5. Sessions(c)
  <2>1. cookie' \in [Users -> Configs] BY DEF IInv, ServerInv
  <2>2. ASSUME Alone(c) PROVE SessionOK(cookie[usr[c]], p, q)
    BY <2>2 DEF IInv, OnePageOneConfig, Alone, SessionOK
  <2> QED BY <1>1, <2>1, <2>2 DEF Sessions
<1>6. ServerInv' /\ \A f : Moves(f) BY <1>1, <1>5, SameServer DEF Apart, Sessions, server
<1>7. ASSUME c \notin disturbed' PROVE ToldNow(c)'
  <2> DEFINE f == a.cfg
  <2>1. Told(usr[c], a, q, ev, whoInterlocked[f], whoValue[f], tree[f], l1[f])
    BY <1>7 DEF IInv, ToldInv, ToldNow
  <2>2. Told(usr[c], p, q, ev, whoInterlocked[f], whoValue[f], tree[f], l1[f])
    BY <2>1, SameView
  <2> QED BY <1>1, <2>2, ToldLater DEF server
<1> QED BY <1>1, <1>4, <1>5, <1>6, <1>7, OneClient

(* What is left of the requests when a page is reloaded. *)
LEMMA KeptRequests ==
    ASSUME NEW c \in Clients, NEW p, NEW ev, ClientInv(p, requests[c], ev), NEW a,
           NEW k, k = Kept(c)
    PROVE  Queue(k) /\ \A i \in DOMAIN k : /\ RequestOK(a, k[i]) /\ k[i].gone = TRUE
                                           /\ k[i].kind \notin Own
<1> DEFINE r == requests[c]
           D == {j \in DOMAIN r : r[j].stage # "served" /\ r[j].kind # "get"}
<1>1. k = [i \in D |-> [r[i] EXCEPT !.gone = TRUE]] BY DEF Kept
<1>2. DOMAIN k = D BY <1>1
<1>3. IsFiniteSet(D) BY FS_Subset DEF ClientInv, Queue
<1>4. ASSUME NEW i \in D
      PROVE  /\ DOMAIN k[i] = RequestFields
             /\ RequestOK(a, k[i]) /\ k[i].gone = TRUE /\ k[i].kind \notin Own
  <2>1. DOMAIN r[i] = RequestFields /\ RequestOK(p, r[i]) BY DEF ClientInv, Queue
  <2>2. k[i] = [r[i] EXCEPT !.gone = TRUE] BY <1>1
  <2>3. /\ DOMAIN k[i] = RequestFields /\ k[i].gone = TRUE
        /\ k[i].kind = r[i].kind /\ k[i].stage = r[i].stage /\ k[i].sess = r[i].sess
        /\ k[i].arg = r[i].arg
    BY <2>1, <2>2 DEF RequestFields
  <2>4. k[i].kind \notin Own BY <2>1, <2>3 DEF RequestOK, Own
  <2>5. RequestOK(a, k[i]) BY <2>1, <2>3, <2>4 DEF RequestOK, Own
  <2> QED BY <2>3, <2>4, <2>5
<1>5. Queue(k) BY <1>2, <1>3, <1>4 DEF Queue
<1> QED BY <1>2, <1>4, <1>5

(* A page is loaded: it has asked for its tree, and will be told. *)
LEMMA OpensStep ==
    ASSUME IInv, NEW c \in Clients, NEW f \in Configs, Opens(c, f),
           cookie' \in [Users -> Configs], cookie'[usr[c]] = f,
           \A u \in Users \ {usr[c]} : cookie'[u] = cookie[u],
           UNCHANGED <<usr, server, polling>>
    PROVE  IInv'
<1> DEFINE r == requests[c]
<1>1. ClientInv(pages[c], r, events[c]) BY DEF IInv, ClientsInv
<1>2. PICK p : p = Page(f, pages[c].selectednode) OBVIOUS
<1>3. PICK k : k = Kept(c) OBVIOUS
<1>4. PICK t : t = Done("tree", f) OBVIOUS
<1>5. PICK s : s = Done("fsm", f) OBVIOUS
<1>6. PICK q1 : q1 = With(k, t) OBVIOUS
<1>7. PICK q : q = With(q1, s) OBVIOUS
<1>8. /\ pages' = [pages EXCEPT ![c] = p] /\ events' = [events EXCEPT ![c] = <<>>]
      /\ requests' = [requests EXCEPT ![c] = q] /\ disturbed' = disturbed \ {c}
  BY <1>2, <1>3, <1>4, <1>5, <1>6, <1>7 DEF Opens
<1>9. Apart(c) /\ pages'[c] = p /\ requests'[c] = q /\ events'[c] = <<>>
  BY <1>8 DEF Apart, IInv, ServerInv
<1>10. GoodPage(p) /\ p.cfg = f /\ ~p.loaded /\ Locked(p)
  <2>1. PICK x : x = pages[c].selectednode OBVIOUS
  <2>2. p = Page(f, x) BY <1>2, <2>1
  <2> QED BY <2>2, NewPage
<1>11. Queue(k) /\ \A i \in DOMAIN k : /\ RequestOK(p, k[i]) /\ k[i].gone = TRUE
                                       /\ k[i].kind \notin Own
  BY <1>1, <1>3, KeptRequests
<1>12. /\ DOMAIN t = RequestFields /\ t.kind = "tree" /\ t.sess = f /\ t.gone = FALSE
       /\ t.stage = "served"
       /\ DOMAIN s = RequestFields /\ s.kind = "fsm" /\ s.sess = f /\ s.gone = FALSE
       /\ s.stage = "served"
  BY <1>4, <1>5 DEF Done, Request, RequestFields
<1>13. RequestOK(p, t) /\ RequestOK(p, s) BY <1>10, <1>12 DEF RequestOK, Own
<1>14. Queue(q1) /\ \E n : Adds(q1, k, n, t) BY <1>6, <1>11, <1>12, WithOne
<1>15. PICK n : Adds(q1, k, n, t) BY <1>14
<1>16. Queue(q) /\ \E m : Adds(q, q1, m, s) BY <1>7, <1>12, <1>14, WithOne
<1>17. PICK m : Adds(q, q1, m, s) BY <1>16
<1>18. /\ DOMAIN q = DOMAIN k \cup {n, m} /\ n # m /\ q[n] = t /\ q[m] = s
       /\ n \notin DOMAIN k /\ m \notin DOMAIN k /\ \A i \in DOMAIN k : q[i] = k[i]
  BY <1>15, <1>17 DEF Adds
<1>19. \A i \in DOMAIN q : RequestOK(p, q[i]) BY <1>11, <1>13, <1>18
<1>20. TreeOnce(p, q) BY <1>11, <1>12, <1>18 DEF TreeOnce, Own
<1>21. ClientInv(p, q, <<>>) BY <1>10, <1>16, <1>19, <1>20 DEF ClientInv, FirstPost
<1>22. Sessions(c)
  <2>1. SessionOK(f, p, q) BY <1>10, <1>11, <1>12, <1>18 DEF SessionOK
  <2> QED BY <1>9, <2>1 DEF Sessions
<1>23. ServerInv' /\ \A g : Moves(g) BY <1>9, SameServer DEF Apart, server
<1>24. ToldNow(c)'
  <2>1. Waiting(q) BY <1>12, <1>18 DEF Waiting
  <2>2. Told(usr[c], p, q, <<>>, whoInterlocked[f], whoValue[f], tree[f], l1[f])
    BY <2>1 DEF Told, LockTold, TreeTold, Last
  <2> QED BY <1>9, <1>10, <2>2, ToldLater DEF server
<1>25. \A d \in Clients \ {c} : d \notin disturbed' => d \notin disturbed BY <1>8
<1> QED BY <1>9, <1>21, <1>22, <1>23, <1>24, <1>25, OneClient

(* The connection is lost, with the events on it. *)
LEMMA DisconnectStep ==
    ASSUME IInv, NEW c \in Clients, Disconnect(c)
    PROVE  IInv'
<1> DEFINE a == pages[c]  q == requests[c]  ev == events[c]
<1>1. PICK p : p = [a EXCEPT !.connected = FALSE] OBVIOUS
<1>2. pages' = [pages EXCEPT ![c] = p] BY <1>1 DEF Disconnect
<1>3. events' = [events EXCEPT ![c] = <<>>] /\ requests' = requests BY DEF Disconnect
<1>4. Apart(c) /\ pages'[c] = p /\ events'[c] = <<>>
  BY <1>2, <1>3 DEF Apart, IInv, ServerInv
<1>5. ClientInv(a, q, ev) BY DEF IInv, ClientsInv
<1>6. /\ GoodPage(p) /\ p.cfg = a.cfg /\ p.loaded = a.loaded /\ p.idList = a.idList
      /\ p.ownerFlag = a.ownerFlag /\ (Locked(a) => Locked(p))
  BY <1>1, <1>5, QuietPage DEF ClientInv
<1>7. FirstPost(p, q) BY <1>5, <1>6 DEF FirstPost, ClientInv
<1>8. ClientInv(p, q, ev) BY <1>5, <1>6, <1>7, PageStep
<1>9. ClientInv(p, q, <<>>) BY <1>8 DEF ClientInv
<1>10. Sessions(c)
  <2>1. usr' = usr /\ cookie' = cookie /\ cookie \in [Users -> Configs]
    BY DEF Disconnect, IInv, ServerInv
  <2>2. ASSUME Alone(c) PROVE SessionOK(cookie[usr[c]], p, q)
    BY <1>6, <2>2 DEF IInv, OnePageOneConfig, Alone, SessionOK
  <2> QED BY <1>3, <1>4, <2>1, <2>2 DEF Sessions
<1>11. ServerInv' /\ \A f : Moves(f)
  BY <1>4, <1>10, SameServer DEF Apart, Sessions, Disconnect, server
<1>12. ASSUME c \notin disturbed' PROVE ToldNow(c)'
  <2> DEFINE f == a.cfg
  <2>1. ev = <<>> /\ c \notin disturbed BY <1>12 DEF Disconnect
  <2>2. Told(usr[c], a, q, <<>>, whoInterlocked[f], whoValue[f], tree[f], l1[f])
    BY <2>1 DEF IInv, ToldInv, ToldNow
  <2>3. Told(usr[c], p, q, <<>>, whoInterlocked[f], whoValue[f], tree[f], l1[f])
    BY <1>6, <2>2, SameView
  <2> QED BY <1>3, <1>4, <1>6, <2>3, ToldLater DEF server, Disconnect
<1>13. \A d \in Clients \ {c} : d \notin disturbed' => d \notin disturbed
  BY DEF Disconnect
<1> QED BY <1>3, <1>4, <1>9, <1>10, <1>11, <1>12, <1>13, OneClient

-----------------------------------------------------------------------------
(* The server's handlers.                                                  *)

(* A request is served, or was all that was left of its page. *)
ServedAs(r, i, arg) ==
    IF r[i].gone THEN Without(r, i) ELSE [r EXCEPT ![i].stage = "served", ![i].arg = arg]
IsServed(p, q, r, ev, i, arg) ==
    /\ ClientInv(p, q, ev)
    /\ \A k : SessionOK(k, p, r) => SessionOK(k, p, q)
    /\ r[i].gone => SameNews(q, r)
    /\ ~r[i].gone => \E new : /\ Puts(q, r, i, new) /\ new.kind = r[i].kind
                              /\ new.stage = "served" /\ new.arg = arg
                              /\ new.sess = r[i].sess

(* The page's invariant is preserved. *)
LEMMA ServedRequest ==
    ASSUME NEW p, NEW r, NEW ev, ClientInv(p, r, ev), NEW i \in DOMAIN r,
           r[i].stage # "served", r[i].kind \in {"lock", "comm", "get"}, NEW arg,
           r[i].kind = "get" => arg.list \in List(p.cfg),
           r[i].kind = "lock" => arg \in {"released", "taken", "refused"},
           NEW q, q = ServedAs(r, i, arg)
    PROVE  IsServed(p, q, r, ev, i, arg)
<1>1. DOMAIN r[i] = RequestFields /\ RequestOK(p, r[i]) /\ Queue(r)
  BY DEF ClientInv, Queue
<1>2. i \notin NewsOf(r) BY DEF NewsOf
<1>3. CASE r[i].gone
  <2>1. Queue(q) /\ Drops(q, r, i) BY <1>1, <1>3, WithoutOne DEF ServedAs
  <2>2. r[i].kind # "get" BY <1>1, <1>3 DEF RequestOK, Own
  <2>3. ClientInv(p, q, ev) BY <2>1, DropStep
  <2>4. SameNews(q, r) BY <1>2, <2>1, <2>2, DropsQuietly
  <2>5. \A k : SessionOK(k, p, r) => SessionOK(k, p, q) BY <2>1 DEF SessionOK, Drops
  <2> QED BY <1>3, <2>3, <2>4, <2>5 DEF IsServed
<1>4. CASE ~r[i].gone
  <2>1. q = [r EXCEPT ![i].stage = "served", ![i].arg = arg] BY <1>4 DEF ServedAs
  <2>2. PICK new : new = [r[i] EXCEPT !.stage = "served", !.arg = arg] OBVIOUS
  <2>3. /\ DOMAIN new = RequestFields /\ new.kind = r[i].kind /\ new.stage = "served"
        /\ new.arg = arg /\ new.sess = r[i].sess /\ new.gone = r[i].gone
    BY <1>1, <2>2 DEF RequestFields
  <2>4. Puts(q, r, i, new)
    BY <2>1, <2>2 DEF Puts
  <2>5. RequestOK(p, new) BY <1>1, <1>4, <2>3 DEF RequestOK, Own
  <2>6. ClientInv(p, q, ev) BY <2>3, <2>4, <2>5, PutStep
  <2>7. \A k : SessionOK(k, p, r) => SessionOK(k, p, q) BY <2>3, <2>4 DEF SessionOK, Puts
  <2> QED BY <1>4, <2>3, <2>4, <2>6, <2>7 DEF IsServed
<1> QED BY <1>3, <1>4

(* One more answer with news: no other is on its way to a page that is not *)
(* doomed.                                                                 *)
LEMMA FirstNews ==
    ASSUME NEW p, NEW q, NEW r, NEW ev, NEW i \in DOMAIN r, NEW new, Puts(q, r, i, new),
           i \notin NewsOf(r), new.stage = "served", new.kind \in {"get", "lock"},
           ~Doomed(p, q, ev)
    PROVE  NewsOf(q) = {i} /\ NewsOf(r) = {} /\ ~Doomed(p, r, ev)
<1>1. i \in NewsOf(q) BY DEF NewsOf, Puts
<1>2. \A j \in NewsOf(r) : j \in NewsOf(q) /\ j # i BY DEF NewsOf, Puts
<1>3. NewsOf(r) = {} BY <1>1, <1>2 DEF Doomed
<1>4. NewsOf(q) = {i} BY <1>1 DEF Doomed
<1>5. ~Doomed(p, r, ev) BY <1>3 DEF Doomed
<1> QED BY <1>3, <1>4, <1>5

(* The answer to a click on the lock. *)
LEMMA LockServed ==
    ASSUME NEW u, NEW p, NEW q, NEW r, NEW ev, NEW H, NEW H1, NEW W, NEW T, NEW L,
           Told(u, p, r, ev, H, W, T, L), H1 = H \/ H1 # W,
           NEW i \in DOMAIN r, NEW new, Puts(q, r, i, new), i \notin NewsOf(r),
           r[i].kind = "lock", new.kind = "lock", new.stage = "served",
           \/ new.arg = "taken" /\ H1 = u
           \/ new.arg = "released" /\ H1 # u
           \/ new.arg = "refused" /\ H1 = H
    PROVE  Told(u, p, q, ev, H1, W, T, L)
<1> SUFFICES ASSUME ~Doomed(p, q, ev)
             PROVE  LockTold(u, p, q, ev, H1, W) /\ TreeTold(p, q, ev, T, L)
  BY DEF Told
<1>1. NewsOf(q) = {i} /\ NewsOf(r) = {} /\ ~Doomed(p, r, ev) BY FirstNews
<1>2. LockTold(u, p, r, ev, H, W) /\ TreeTold(p, r, ev, T, L) BY <1>1 DEF Told
<1>3. Waiting(q) <=> Waiting(r) BY DEF Waiting, Puts
<1>4. q[i] = new BY DEF Puts
<1>5. LockTold(u, p, q, ev, H1, W)
  <2>1. ASSUME NoEvent(ev, "interlockChng"), ~Waiting(r), W = H1
        PROVE  LockNews(u, p, new, H1)
    BY <1>1, <1>2, <2>1 DEF LockTold, LockNews
  <2> QED BY <1>1, <1>2, <1>3, <1>4, <2>1 DEF LockTold
<1>6. TreeTold(p, q, ev, T, L) BY <1>1, <1>2, <1>3, <1>4 DEF TreeTold
<1> QED BY <1>5, <1>6

(* The snapshot. *)
LEMMA GetServed ==
    ASSUME NEW u, NEW p, NEW q, NEW r, NEW ev, NEW H, NEW W, NEW T, NEW L,
           Told(u, p, r, ev, H, W, T, L),
           NEW i \in DOMAIN r, NEW new, Puts(q, r, i, new), i \notin NewsOf(r),
           new.kind = "get", new.stage = "served", new.arg.who = H,
           Shows(p.cfg, new.arg.list, T)
    PROVE  Told(u, p, q, ev, H, W, T, L)
<1> SUFFICES ASSUME ~Doomed(p, q, ev)
             PROVE  LockTold(u, p, q, ev, H, W) /\ TreeTold(p, q, ev, T, L)
  BY DEF Told
<1>1. NewsOf(q) = {i} /\ NewsOf(r) = {} /\ ~Doomed(p, r, ev) BY FirstNews
<1>2. LockTold(u, p, r, ev, H, W) /\ TreeTold(p, r, ev, T, L) BY <1>1 DEF Told
<1>3. q[i] = new BY DEF Puts
<1>4. LockTold(u, p, q, ev, H, W) BY <1>1, <1>2, <1>3 DEF LockTold, LockNews
<1>5. TreeTold(p, q, ev, T, L) BY <1>1, <1>2, <1>3 DEF TreeTold
<1> QED BY <1>4, <1>5

(* A handler serves a request of c and may change holder and states. *)
LEMMA ServeStep ==
    ASSUME IInv, NEW c \in Clients, NEW q, requests' = [requests EXCEPT ![c] = q],
           UNCHANGED <<usr, cookie, polling, pages, events>>,
           whoInterlocked' \in [Configs -> Holders],
           DOMAIN tree' = Configs, \A g \in Configs : tree'[g] \in States(g),
           ClientInv(pages[c], q, events[c]),
           \A k : SessionOK(k, pages[c], requests[c]) => SessionOK(k, pages[c], q),
           \A d \in Clients : d \notin disturbed' => d \notin disturbed /\ Moves(pages[d].cfg),
           NEW f, f = pages[c].cfg,
           c \notin disturbed' => Told(usr[c], pages[c], q, events[c],
                                       whoInterlocked'[f], whoValue[f], tree'[f], l1[f])
    PROVE  IInv'
<1>1. Apart(c) /\ requests'[c] = q BY DEF Apart, IInv, ServerInv
<1>2. ServerInv' BY <1>1 DEF IInv, ServerInv, polling
<1>3. Sessions(c)
  <2>1. cookie' \in [Users -> Configs] BY DEF IInv, ServerInv
  <2>2. ASSUME Alone(c) PROVE SessionOK(cookie[usr[c]], pages[c], q)
    BY <2>2 DEF IInv, OnePageOneConfig, Alone, SessionOK
  <2> QED BY <1>1, <2>1, <2>2 DEF Sessions
<1>4. c \notin disturbed' => ToldNow(c)' BY <1>1 DEF ToldNow, polling
<1> QED BY <1>1, <1>2, <1>3, <1>4, OneClient

(* The holder changes. *)
LEMMA ReassignMoves ==
    ASSUME IInv, NEW f \in Configs, NEW who \in Holders, Reassign(f, who),
           UNCHANGED <<tree, polling>>
    PROVE  /\ whoInterlocked' \in [Configs -> Holders] /\ whoInterlocked'[f] = who
           /\ \A d \in Clients : d \notin disturbed' => d \notin disturbed /\ Moves(pages[d].cfg)
<1>1. /\ whoInterlocked' \in [Configs -> Holders] /\ whoInterlocked'[f] = who
      /\ \A g \in Configs \ {f} : whoInterlocked'[g] = whoInterlocked[g]
  BY DEF IInv, ServerInv, Reassign
<1>2. ASSUME NEW d \in Clients, d \notin disturbed'
      PROVE  d \notin disturbed /\ Moves(pages[d].cfg)
  <2>1. pages[d].cfg \in Configs BY DEF IInv, ClientsInv, ClientInv, GoodPage, PageShape
  <2>2. d \notin disturbed BY <1>2 DEF Reassign
  <2>3. CASE pages[d].cfg = f
    <3>1. who = whoInterlocked[f] \/ who # whoValue[f] BY <1>2, <2>3 DEF Reassign, On
    <3> QED BY <1>1, <2>2, <2>3, <3>1 DEF Moves, polling
  <2>4. CASE pages[d].cfg # f
    BY <1>1, <2>1, <2>2, <2>4 DEF Moves, polling
  <2> QED BY <2>3, <2>4
<1> QED BY <1>1, <1>2

(* The states change. *)
LEMMA BecomesMoves ==
    ASSUME IInv, NEW f \in Configs, NEW new \in States(f), Becomes(f, new),
           UNCHANGED <<whoInterlocked, polling>>
    PROVE  /\ DOMAIN tree' = Configs /\ \A g \in Configs : tree'[g] \in States(g)
           /\ \A d \in Clients : d \notin disturbed' => d \notin disturbed /\ Moves(pages[d].cfg)
<1>1. /\ DOMAIN tree' = Configs /\ tree'[f] = new
      /\ \A g \in Configs \ {f} : tree'[g] = tree[g]
      /\ \A g \in Configs : tree'[g] \in States(g)
  BY DEF IInv, ServerInv, Becomes
<1>2. ASSUME NEW d \in Clients, d \notin disturbed'
      PROVE  d \notin disturbed /\ Moves(pages[d].cfg)
  <2>1. pages[d].cfg \in Configs BY DEF IInv, ClientsInv, ClientInv, GoodPage, PageShape
  <2>2. d \notin disturbed BY <1>2 DEF Becomes
  <2>3. CASE pages[d].cfg = f
    <3>1. new = tree[f] \/ new # l1[f] BY <1>2, <2>3 DEF Becomes, On
    <3> QED BY <1>1, <2>2, <2>3, <3>1 DEF Moves, polling
  <2>4. CASE pages[d].cfg # f
    BY <1>1, <2>1, <2>2, <2>4 DEF Moves, polling
  <2> QED BY <2>3, <2>4
<1> QED BY <1>1, <1>2

(* A request that the server has not seen yet. *)
LEMMA RequestFacts ==
    ASSUME IInv, NEW c \in Clients, NEW i \in DOMAIN requests[c]
    PROVE  /\ ClientInv(pages[c], requests[c], events[c]) /\ usr[c] \in Users
           /\ RequestOK(pages[c], requests[c][i]) /\ DOMAIN requests[c][i] = RequestFields
           /\ requests[c][i].sess \in Configs /\ pages[c].cfg \in Configs
           /\ requests[c][i].stage # "served" => i \notin NewsOf(requests[c])
           /\ c \notin disturbed => ToldNow(c)
<1>1. ClientInv(pages[c], requests[c], events[c]) BY DEF IInv, ClientsInv
<1>2. RequestOK(pages[c], requests[c][i]) /\ DOMAIN requests[c][i] = RequestFields
  BY <1>1 DEF ClientInv, Queue
<1>3. pages[c].cfg \in Configs BY <1>1 DEF ClientInv, GoodPage, PageShape
<1> QED BY <1>1, <1>2, <1>3 DEF IInv, ServerInv, ToldInv, RequestOK, NewsOf

(* A click on the lock changes the holder, or is refused. *)
LEMMA LockStep ==
    ASSUME IInv, NEW c \in Clients, NEW i \in DOMAIN requests[c],
           requests[c][i].kind = "lock", requests[c][i].stage # "served",
           NEW f, f = requests[c][i].sess,
           NEW arg \in {"released", "taken", "refused"}, Served(c, i, arg),
           \/ arg = "taken" /\ Reassign(f, usr[c])
           \/ arg = "released" /\ Reassign(f, None)
           \/ arg = "refused" /\ UNCHANGED <<whoInterlocked, disturbed>>,
           UNCHANGED <<usr, cookie, tree, polling, pages, events>>
    PROVE  IInv'
<1> DEFINE p == pages[c]  r == requests[c]  ev == events[c]  g == pages[c].cfg
<1>1. /\ ClientInv(p, r, ev) /\ usr[c] \in Users /\ f \in Configs /\ g \in Configs
      /\ i \notin NewsOf(r) /\ (c \notin disturbed => ToldNow(c))
  BY RequestFacts
<1>2. PICK q : q = ServedAs(r, i, arg) OBVIOUS
<1>3. requests' = [requests EXCEPT ![c] = q] BY <1>2 DEF Served, ServedAs
<1>4. IsServed(p, q, r, ev, i, arg)
  <2>1. /\ i \in DOMAIN r /\ r[i].stage # "served" /\ r[i].kind \in {"lock", "comm", "get"}
        /\ r[i].kind = "get" => arg.list \in List(p.cfg)
        /\ r[i].kind = "lock" => arg \in {"released", "taken", "refused"}
    OBVIOUS
  <2> QED BY <1>1, <1>2, <2>1, ServedRequest
<1>5. /\ whoInterlocked' \in [Configs -> Holders]
      /\ \A d \in Clients : d \notin disturbed' => d \notin disturbed /\ Moves(pages[d].cfg)
      /\ arg = "taken" => whoInterlocked'[f] = usr[c]
      /\ arg = "released" => whoInterlocked'[f] = None
      /\ arg = "refused" => whoInterlocked' = whoInterlocked
  <2>1. CASE arg = "refused"
    BY <2>1 DEF IInv, ServerInv, Moves, polling
  <2>2. CASE arg = "taken"
    <3>1. Reassign(f, usr[c]) /\ usr[c] \in Holders BY <1>1, <2>2 DEF Holders
    <3> QED BY <1>1, <2>2, <3>1, ReassignMoves
  <2>3. CASE arg = "released"
    <3>1. Reassign(f, None) /\ None \in Holders BY <2>3 DEF Holders
    <3> QED BY <1>1, <2>3, <3>1, ReassignMoves
  <2> QED BY <2>1, <2>2, <2>3
<1>6. DOMAIN tree' = Configs /\ \A h \in Configs : tree'[h] \in States(h)
  BY DEF IInv, ServerInv
<1>7. ASSUME c \notin disturbed'
      PROVE  Told(usr[c], p, q, ev, whoInterlocked'[g], whoValue[g], tree'[g], l1[g])
  <2>1. Told(usr[c], p, r, ev, whoInterlocked[g], whoValue[g], tree[g], l1[g])
    BY <1>1, <1>5, <1>7 DEF ToldNow
  <2>2. whoInterlocked'[g] = whoInterlocked[g] \/ whoInterlocked'[g] # whoValue[g]
    BY <1>5, <1>7 DEF Moves
  <2>3. Told(usr[c], p, r, ev, whoInterlocked'[g], whoValue[g], tree'[g], l1[g])
    BY <2>1, <2>2, ServerMoves
  <2>4. CASE r[i].gone
    BY <1>4, <2>3, <2>4, NoNews DEF IsServed
  <2>5. CASE ~r[i].gone
    <3>1. PICK new : /\ Puts(q, r, i, new) /\ new.kind = r[i].kind /\ new.stage = "served"
                     /\ new.arg = arg /\ new.sess = r[i].sess
      BY <1>4, <2>5 DEF IsServed
    <3>2. CASE f # g
      <4>1. Doomed(p, q, ev) BY <3>1, <3>2 DEF Doomed, NewsOf, Puts
      <4> QED BY <4>1 DEF Told
    <3>3. CASE f = g
      <4>1. None # usr[c] BY <1>1, GuiAssumption
      <4>2. \/ new.arg = "taken" /\ whoInterlocked'[g] = usr[c]
            \/ new.arg = "released" /\ whoInterlocked'[g] # usr[c]
            \/ new.arg = "refused" /\ whoInterlocked'[g] = whoInterlocked[g]
        BY <1>5, <3>1, <3>3, <4>1
      <4>3. Told(usr[c], p, q, ev, whoInterlocked'[g], whoValue[g], tree[g], l1[g])
        BY <1>1, <2>1, <2>2, <3>1, <4>2, LockServed
      <4> QED BY <4>3
    <3> QED BY <3>2, <3>3
  <2> QED BY <2>4, <2>5
<1>8. ClientInv(p, q, ev) /\ \A k : SessionOK(k, p, r) => SessionOK(k, p, q)
  BY <1>4 DEF IsServed
<1> QED BY <1>3, <1>5, <1>6, <1>7, <1>8, ServeStep

(* Nothing that a page is told of changes. *)
LEMMA QuietStep ==
    ASSUME IInv, NEW c \in Clients, NEW q, requests' = [requests EXCEPT ![c] = q],
           UNCHANGED <<usr, cookie, whoInterlocked, tree, polling, pages, events, disturbed>>,
           ClientInv(pages[c], q, events[c]), SameNews(q, requests[c]),
           \A k : SessionOK(k, pages[c], requests[c]) => SessionOK(k, pages[c], q)
    PROVE  IInv'
<1> DEFINE f == pages[c].cfg
<1>1. \A g : Moves(g) BY DEF Moves, polling
<1>2. /\ whoInterlocked' \in [Configs -> Holders]
      /\ DOMAIN tree' = Configs /\ \A g \in Configs : tree'[g] \in States(g)
  BY DEF IInv, ServerInv
<1>3. ASSUME c \notin disturbed'
      PROVE  Told(usr[c], pages[c], q, events[c],
                  whoInterlocked'[f], whoValue[f], tree'[f], l1[f])
  <2>1. Told(usr[c], pages[c], requests[c], events[c],
             whoInterlocked[f], whoValue[f], tree[f], l1[f])
    BY <1>3 DEF IInv, ToldInv, ToldNow
  <2> QED BY <2>1, NoNews
<1> QED BY <1>1, <1>2, <1>3, ServeStep

(* interlock looks at the holder. *)
LEMMA InterlockStep ==
    ASSUME IInv, NEW c \in Clients, NEW i \in DOMAIN requests[c], interlock(c, i)
    PROVE  IInv'
<1> DEFINE p == pages[c]  r == requests[c]  ev == events[c]
<1>1. /\ ClientInv(p, r, ev) /\ RequestOK(p, r[i]) /\ DOMAIN r[i] = RequestFields
      /\ r[i].stage # "served" => i \notin NewsOf(r)
  BY RequestFacts
<1>2. r[i].kind = "lock" /\ r[i].stage = "sent" BY DEF interlock
<1>3. CASE requests' = [requests EXCEPT ![c][i].stage = "free"]
           /\ UNCHANGED <<whoInterlocked, disturbed>>
  <2>1. PICK new : new = [r[i] EXCEPT !.stage = "free"] OBVIOUS
  <2>2. PICK q : q = [r EXCEPT ![i] = new] OBVIOUS
  <2>3. requests' = [requests EXCEPT ![c] = q] BY <1>3, <2>1, <2>2
  <2>4. /\ DOMAIN new = RequestFields /\ new.kind = "lock" /\ new.stage = "free"
        /\ new.arg = r[i].arg /\ new.sess = r[i].sess /\ new.gone = r[i].gone
    BY <1>1, <1>2, <2>1 DEF RequestFields
  <2>5. Puts(q, r, i, new) BY <2>2 DEF Puts
  <2>6. RequestOK(p, new) BY <1>1, <1>2, <2>4 DEF RequestOK, Own
  <2>7. ClientInv(p, q, ev) BY <1>1, <1>2, <2>4, <2>5, <2>6, PutStep
  <2>8. SameNews(q, r) BY <1>1, <1>2, <2>4, <2>5, PutsQuietly
  <2>9. \A k : SessionOK(k, p, r) => SessionOK(k, p, q)
    BY <1>2, <2>4, <2>5 DEF SessionOK, Puts
  <2> QED BY <1>3, <2>3, <2>7, <2>8, <2>9, QuietStep DEF interlock
<1>4. CASE Reassign(r[i].sess, None) /\ Served(c, i, "released")
  BY <1>2, <1>4, LockStep DEF interlock
<1>5. CASE Served(c, i, "refused") /\ UNCHANGED <<whoInterlocked, disturbed>>
  BY <1>2, <1>5, LockStep DEF interlock
<1> QED BY <1>3, <1>4, <1>5 DEF interlock

(* interlock takes control, if nobody had it when it looked. *)
LEMMA InterlockTakeStep ==
    ASSUME IInv, NEW c \in Clients, NEW i \in DOMAIN requests[c], interlockTake(c, i)
    PROVE  IInv'
<1>1. RequestOK(pages[c], requests[c][i]) BY RequestFacts
<1>2. requests[c][i].stage = "free" BY DEF interlockTake
<1>3. requests[c][i].kind = "lock" BY <1>1, <1>2 DEF RequestOK
<1> QED BY <1>2, <1>3, LockStep DEF interlockTake

(* A command is executed. *)
LEMMA AjaxParseStep ==
    ASSUME IInv, NEW c \in Clients, NEW i \in DOMAIN requests[c], ajaxParse(c, i)
    PROVE  IInv'
<1> DEFINE p == pages[c]  r == requests[c]  ev == events[c]  g == pages[c].cfg
           f == requests[c][i].sess  arg == requests[c][i].arg
<1>1. /\ ClientInv(p, r, ev) /\ i \notin NewsOf(r) /\ f \in Configs
      /\ (c \notin disturbed => ToldNow(c))
  BY RequestFacts DEF ajaxParse
<1>2. /\ r[i].kind = "comm" /\ r[i].stage = "sent" /\ Served(c, i, arg)
      /\ UNCHANGED <<usr, cookie, whoInterlocked, polling, pages, events>>
  BY DEF ajaxParse
<1>3. PICK q : q = ServedAs(r, i, arg) OBVIOUS
<1>4. requests' = [requests EXCEPT ![c] = q] BY <1>2, <1>3 DEF Served, ServedAs
<1>5. IsServed(p, q, r, ev, i, arg)
  <2>1. /\ i \in DOMAIN r /\ r[i].stage # "served" /\ r[i].kind \in {"lock", "comm", "get"}
        /\ r[i].kind = "get" => arg.list \in List(p.cfg)
        /\ r[i].kind = "lock" => arg \in {"released", "taken", "refused"}
    BY <1>2
  <2> QED BY <1>1, <1>3, <2>1, ServedRequest
<1>6. ClientInv(p, q, ev) /\ \A k : SessionOK(k, p, r) => SessionOK(k, p, q)
  BY <1>5 DEF IsServed
<1>7. SameNews(q, r)
  <2>1. CASE r[i].gone BY <1>5, <2>1 DEF IsServed
  <2>2. CASE ~r[i].gone
    <3>1. PICK new : /\ Puts(q, r, i, new) /\ new.kind = r[i].kind /\ new.stage = "served"
                     /\ new.arg = arg /\ new.sess = r[i].sess
      BY <1>5, <2>2 DEF IsServed
    <3> QED BY <1>1, <1>2, <3>1, PutsQuietly
  <2> QED BY <2>1, <2>2
<1>8. CASE UNCHANGED <<tree, disturbed>>
  BY <1>2, <1>4, <1>6, <1>7, <1>8, QuietStep
<1>9. ASSUME NEW k \in Nodes(f), NEW s \in StateSets,
             Becomes(f, CASE arg.command = "include" -> [tree[f] EXCEPT ![k].included = TRUE]
                          [] arg.command = "exclude" -> [tree[f] EXCEPT ![k].included = FALSE]
                          [] OTHER -> [tree[f] EXCEPT ![k].state = s])
      PROVE  IInv'
  <2>1. PICK new : new = CASE arg.command = "include" -> [tree[f] EXCEPT ![k].included = TRUE]
                           [] arg.command = "exclude" -> [tree[f] EXCEPT ![k].included = FALSE]
                           [] OTHER -> [tree[f] EXCEPT ![k].state = s]
    OBVIOUS
  <2>2. new \in States(f)
    <3>1. tree[f] \in [Nodes(f) -> NodeStates] BY <1>1 DEF IInv, ServerInv, States
    <3>2. /\ [tree[f] EXCEPT ![k].included = TRUE] \in [Nodes(f) -> NodeStates]
          /\ [tree[f] EXCEPT ![k].included = FALSE] \in [Nodes(f) -> NodeStates]
          /\ [tree[f] EXCEPT ![k].state = s] \in [Nodes(f) -> NodeStates]
      BY <3>1 DEF NodeStates
    <3> QED BY <2>1, <3>2 DEF States
  <2>3. Becomes(f, new) BY <1>9, <2>1
  <2>4. /\ DOMAIN tree' = Configs /\ \A h \in Configs : tree'[h] \in States(h)
        /\ \A d \in Clients : d \notin disturbed' => d \notin disturbed /\ Moves(pages[d].cfg)
    BY <1>1, <1>2, <2>2, <2>3, BecomesMoves
  <2>5. ASSUME c \notin disturbed'
        PROVE  Told(usr[c], p, q, ev, whoInterlocked'[g], whoValue[g], tree'[g], l1[g])
    <3>1. Told(usr[c], p, r, ev, whoInterlocked[g], whoValue[g], tree[g], l1[g])
      BY <1>1, <2>4, <2>5 DEF ToldNow
    <3>2. tree'[g] = tree[g] \/ tree'[g] # l1[g] BY <2>4, <2>5 DEF Moves
    <3>3. Told(usr[c], p, r, ev, whoInterlocked'[g], whoValue[g], tree'[g], l1[g])
      BY <1>2, <3>1, <3>2, ServerMoves
    <3> QED BY <1>7, <3>3, NoNews
  <2>6. whoInterlocked' \in [Configs -> Holders] BY <1>2 DEF IInv, ServerInv
  <2> QED BY <1>2, <1>4, <1>6, <2>4, <2>5, <2>6, ServeStep
<1> QED BY <1>8, <1>9 DEF ajaxParse

(* getStatesList names every node with its state. *)
LEMMA StatesOfTree ==
    ASSUME NEW f \in Configs, tree[f] \in States(f)
    PROVE  getStatesList(f) \in List(f) /\ Shows(f, getStatesList(f), tree[f])
<1> DEFINE at(n) == CHOOSE k \in Nodes(f) : Tree[f][k] = n
<1>1. \A k, j \in Nodes(f) : Tree[f][k] = Tree[f][j] => k = j BY TreeFacts
<1>2. ASSUME NEW n \in Range(Tree[f]) PROVE at(n) \in Nodes(f) /\ Tree[f][at(n)] = n
  <2>1. \E k \in Nodes(f) : Tree[f][k] = n BY <1>2 DEF Range, Nodes
  <2> QED BY <2>1
<1>3. \A k \in Nodes(f) : Tree[f][k] \in Range(Tree[f]) BY TreeFacts
<1>4. \A k \in Nodes(f) : at(Tree[f][k]) = k BY <1>1, <1>2, <1>3
<1>5. getStatesList(f) = [n \in Range(Tree[f]) |-> tree[f][at(n)]] BY DEF getStatesList
<1> HIDE DEF at
<1>6. \A n \in Range(Tree[f]) : tree[f][at(n)] \in NodeStates BY <1>2 DEF States
<1>7. getStatesList(f) \in List(f) BY <1>5, <1>6 DEF List
<1>8. Shows(f, getStatesList(f), tree[f]) BY <1>3, <1>4, <1>5 DEF Shows
<1> QED BY <1>7, <1>8

(* The snapshot is taken. *)
LEMMA StatesListStep ==
    ASSUME IInv, NEW c \in Clients, NEW i \in DOMAIN requests[c], statesList(c, i)
    PROVE  IInv'
<1> DEFINE p == pages[c]  r == requests[c]  ev == events[c]  f == pages[c].cfg
<1>1. /\ ClientInv(p, r, ev) /\ RequestOK(p, r[i]) /\ f \in Configs
      /\ i \notin NewsOf(r) /\ (c \notin disturbed => ToldNow(c))
  BY RequestFacts DEF statesList
<1>2. r[i].kind = "get" /\ r[i].stage = "sent" BY DEF statesList
<1>3. r[i].sess = f BY <1>1, <1>2 DEF RequestOK, Own
<1>4. PICK arg : arg = [who |-> whoInterlocked[f], list |-> getStatesList(f)] OBVIOUS
<1>5. /\ Served(c, i, arg)
      /\ UNCHANGED <<usr, cookie, server, polling, pages, events, disturbed>>
  BY <1>3, <1>4 DEF statesList
<1>6. getStatesList(f) \in List(f) /\ Shows(f, getStatesList(f), tree[f])
  BY <1>1, StatesOfTree DEF IInv, ServerInv
<1>7. arg.who = whoInterlocked[f] /\ arg.list \in List(f) /\ Shows(f, arg.list, tree[f])
  BY <1>4, <1>6
<1>8. PICK q : q = ServedAs(r, i, arg) OBVIOUS
<1>9. requests' = [requests EXCEPT ![c] = q] BY <1>5, <1>8 DEF Served, ServedAs
<1>10. IsServed(p, q, r, ev, i, arg)
  <2>1. /\ i \in DOMAIN r /\ r[i].stage # "served" /\ r[i].kind \in {"lock", "comm", "get"}
        /\ r[i].kind = "get" => arg.list \in List(p.cfg)
        /\ r[i].kind = "lock" => arg \in {"released", "taken", "refused"}
    BY <1>2, <1>7
  <2> QED BY <1>1, <1>8, <2>1, ServedRequest
<1>11. ClientInv(p, q, ev) /\ \A k : SessionOK(k, p, r) => SessionOK(k, p, q)
  BY <1>10 DEF IsServed
<1>12. ~r[i].gone BY <1>1, <1>2 DEF RequestOK, Own
<1>13. PICK new : /\ Puts(q, r, i, new) /\ new.kind = r[i].kind /\ new.stage = "served"
                  /\ new.arg = arg /\ new.sess = r[i].sess
  BY <1>10, <1>12 DEF IsServed
<1>14. ASSUME c \notin disturbed'
       PROVE  Told(usr[c], p, q, ev, whoInterlocked'[f], whoValue[f], tree'[f], l1[f])
  <2>1. Told(usr[c], p, r, ev, whoInterlocked[f], whoValue[f], tree[f], l1[f])
    BY <1>1, <1>5, <1>14 DEF ToldNow
  <2>2. Told(usr[c], p, q, ev, whoInterlocked[f], whoValue[f], tree[f], l1[f])
    BY <1>1, <1>2, <1>7, <1>13, <2>1, GetServed
  <2> QED BY <1>5, <2>2 DEF server
<1>15. /\ whoInterlocked' \in [Configs -> Holders]
       /\ DOMAIN tree' = Configs /\ \A g \in Configs : tree'[g] \in States(g)
  BY <1>5 DEF IInv, ServerInv, server
<1>16. \A d \in Clients : d \notin disturbed' => d \notin disturbed /\ Moves(pages[d].cfg)
  BY <1>5 DEF Moves, server, polling
<1> QED BY <1>5, <1>9, <1>11, <1>14, <1>15, <1>16, ServeStep

(* The request of another configuration is served, or its page is gone. *)
LEMMA ConfigsJsonStep ==
    ASSUME IInv, NEW c \in Clients, NEW i \in DOMAIN requests[c], configsJson(c, i)
    PROVE  IInv'
<1> DEFINE p == pages[c]  r == requests[c]  ev == events[c]
<1>1. /\ ClientInv(p, r, ev) /\ RequestOK(p, r[i]) /\ DOMAIN r[i] = RequestFields
      /\ i \notin NewsOf(r)
  BY RequestFacts DEF configsJson
<1>2. /\ r[i].kind = "config" /\ r[i].stage = "sent"
      /\ UNCHANGED <<usr, cookie, server, polling, pages, events, disturbed>>
  BY DEF configsJson
<1>3. CASE r[i].gone
  <2>1. PICK q : q = Without(r, i) OBVIOUS
  <2>2. requests' = [requests EXCEPT ![c] = q] BY <1>3, <2>1 DEF configsJson
  <2>3. Queue(q) /\ Drops(q, r, i) BY <1>1, <2>1, WithoutOne DEF ClientInv
  <2>4. ClientInv(p, q, ev) BY <1>1, <1>2, <2>3, DropStep
  <2>5. SameNews(q, r) BY <1>1, <1>2, <2>3, DropsQuietly
  <2>6. \A k : SessionOK(k, p, r) => SessionOK(k, p, q) BY <2>3 DEF SessionOK, Drops
  <2> QED BY <1>2, <2>2, <2>4, <2>5, <2>6, QuietStep DEF server
<1>4. CASE ~r[i].gone
  <2>1. PICK new : new = [r[i] EXCEPT !.stage = "served", !.sess = r[i].arg] OBVIOUS
  <2>2. PICK q : q = [r EXCEPT ![i] = new] OBVIOUS
  <2>3. requests' = [requests EXCEPT ![c] = q] BY <1>4, <2>1, <2>2 DEF configsJson
  <2>4. /\ DOMAIN new = RequestFields /\ new.kind = "config" /\ new.stage = "served"
        /\ new.arg = r[i].arg /\ new.sess = r[i].arg /\ new.gone = r[i].gone
    BY <1>1, <1>2, <2>1 DEF RequestFields
  <2>5. Puts(q, r, i, new) BY <2>2 DEF Puts
  <2>6. RequestOK(p, new) BY <1>1, <1>2, <1>4, <2>4 DEF RequestOK, Own
  <2>7. ClientInv(p, q, ev) BY <1>1, <1>2, <2>4, <2>5, <2>6, PutStep
  <2>8. SameNews(q, r) BY <1>1, <1>2, <2>4, <2>5, PutsQuietly
  <2>9. \A k : SessionOK(k, p, r) => SessionOK(k, p, q)
    BY <2>4, <2>5 DEF SessionOK, Puts
  <2> QED BY <1>2, <2>3, <2>7, <2>8, <2>9, QuietStep DEF server
<1> QED BY <1>3, <1>4

(* A request of a page that is gone is lost. *)
LEMMA AbortedStep ==
    ASSUME IInv, NEW c \in Clients, NEW i \in DOMAIN requests[c], Aborted(c, i)
    PROVE  IInv'
<1> DEFINE p == pages[c]  r == requests[c]  ev == events[c]
<1>1. ClientInv(p, r, ev) /\ RequestOK(p, r[i]) /\ i \notin NewsOf(r)
  BY RequestFacts DEF Aborted
<1>2. r[i].kind \notin Own BY <1>1 DEF RequestOK, Aborted
<1>3. PICK q : q = Without(r, i) OBVIOUS
<1>4. requests' = [requests EXCEPT ![c] = q] BY <1>3 DEF Aborted
<1>5. Queue(q) /\ Drops(q, r, i) BY <1>1, <1>3, WithoutOne DEF ClientInv
<1>6. ClientInv(p, q, ev) BY <1>1, <1>2, <1>5, DropStep DEF Own
<1>7. SameNews(q, r) BY <1>1, <1>2, <1>5, DropsQuietly DEF Own
<1>8. \A k : SessionOK(k, p, r) => SessionOK(k, p, q) BY <1>5 DEF SessionOK, Drops
<1> QED BY <1>4, <1>6, <1>7, <1>8, QuietStep DEF server, Aborted

-----------------------------------------------------------------------------
(* Events and answers reach the pages.                                     *)

(* The events that are left. *)
LEMMA TailEvents ==
    ASSUME NEW ev \in Seq(EventSet), ev # <<>>, NEW t, t = Tail(ev)
    PROVE  /\ t \in Seq(EventSet) /\ 1 \in DOMAIN ev /\ Head(ev) = ev[1]
           /\ DOMAIN ev \subseteq Nat /\ DOMAIN t \subseteq Nat
           /\ \A j \in DOMAIN t : j + 1 \in DOMAIN ev /\ t[j] = ev[j + 1]
           /\ \A j \in DOMAIN ev : j = 1 \/ (j > 1 /\ j - 1 \in DOMAIN t /\ t[j - 1] = ev[j])
<1>1. /\ Len(ev) \in Nat \ {0} /\ DOMAIN ev = 1..Len(ev)
      /\ t \in Seq(EventSet) /\ Len(t) = Len(ev) - 1 /\ DOMAIN t = 1..(Len(ev) - 1)
      /\ \A j \in 1..(Len(ev) - 1) : t[j] = ev[j + 1]
      /\ Head(ev) = ev[1]
  OBVIOUS
<1> QED BY <1>1

(* The last event of each kind stays the last, until it is the first. *)
LEMMA TailLast ==
    ASSUME NEW ev \in Seq(EventSet), ev # <<>>, NEW t, t = Tail(ev), NEW name
    PROVE  /\ \A j : Last(t, name, j) => Last(ev, name, j + 1)
           /\ NoEvent(t, name) /\ ev[1].name = name => Last(ev, name, 1)
           /\ NoEvent(t, name) /\ ev[1].name # name => NoEvent(ev, name)
<1>1. /\ 1 \in DOMAIN ev /\ DOMAIN ev \subseteq Nat /\ DOMAIN t \subseteq Nat
      /\ \A j \in DOMAIN t : j + 1 \in DOMAIN ev /\ t[j] = ev[j + 1]
      /\ \A j \in DOMAIN ev : j = 1 \/ (j > 1 /\ j - 1 \in DOMAIN t /\ t[j - 1] = ev[j])
  BY TailEvents
<1>2. ASSUME NEW j, Last(t, name, j) PROVE Last(ev, name, j + 1)
  <2>1. j \in DOMAIN t /\ t[j].name = name BY <1>2 DEF Last
  <2>2. ASSUME NEW k \in DOMAIN ev, k > j + 1 PROVE ev[k].name # name
    <3>1. k - 1 \in DOMAIN t /\ k - 1 > j /\ t[k - 1] = ev[k] BY <1>1, <2>1, <2>2
    <3> QED BY <1>2, <3>1 DEF Last
  <2> QED BY <1>1, <2>1, <2>2 DEF Last
<1>3. ASSUME NoEvent(t, name) PROVE \A k \in DOMAIN ev : k # 1 => ev[k].name # name
  BY <1>1, <1>3 DEF NoEvent
<1>4. ASSUME NoEvent(t, name), ev[1].name = name PROVE Last(ev, name, 1)
  BY <1>1, <1>3, <1>4 DEF Last
<1>5. ASSUME NoEvent(t, name), ev[1].name # name PROVE NoEvent(ev, name)
  BY <1>3, <1>5 DEF NoEvent
<1> QED BY <1>2, <1>4, <1>5

(* A page without a request for its tree has its nodes. *)
LEMMA NotWaiting ==
    ASSUME NEW p, NEW q, TreeOnce(p, q), ~Waiting(q)
    PROVE  p.loaded
BY DEF TreeOnce, Waiting

(* A list that shows the tree, copied into the page, is the tree. *)
LEMMA ShowsTree ==
    ASSUME NEW p, GoodPage(p), NEW list, Lists(p, list), p.loaded,
           NEW T \in States(p.cfg), Shows(p.cfg, list, T)
    PROVE  p.idList = T
<1>1. p.idList \in [Nodes(p.cfg) -> NodeStates] BY DEF GoodPage, PageShape, States
<1>2. T \in [Nodes(p.cfg) -> NodeStates] BY DEF States
<1>3. \A k \in Nodes(p.cfg) : p.idList[k] = T[k] BY DEF Lists, Shows
<1> QED BY <1>1, <1>2, <1>3

(* An event is handled while no answer with news is on its way. *)
LEMMA EventHandled ==
    ASSUME NEW u, NEW a, NEW p, NEW q, NEW ev, NEW H, NEW W, NEW T, NEW L,
           Told(u, a, q, ev, H, W, T, L), ClientInv(a, q, ev), ev # <<>>,
           T \in States(a.cfg), L \in States(a.cfg),
           NEW e, e = Head(ev), NEW t, t = Tail(ev), NewsOf(q) = {}, e.f = a.cfg,
           p.cfg = a.cfg, p.loaded = a.loaded, GoodPage(p),
           \/ e.name = "interlockChng" /\ p.idList = a.idList /\ FlagOK(u, p, e.d)
           \/ e.name = "stsChng" /\ p.ownerFlag = a.ownerFlag /\ Lists(p, e.d)
    PROVE  Told(u, p, q, t, H, W, T, L)
<1> SUFFICES ASSUME ~Doomed(p, q, t)
             PROVE  LockTold(u, p, q, t, H, W) /\ TreeTold(p, q, t, T, L)
  BY DEF Told
<1>1. ev \in Seq(EventSet) /\ TreeOnce(a, q) BY DEF ClientInv
<1>2. /\ 1 \in DOMAIN ev /\ e = ev[1]
      /\ \A j \in DOMAIN t : j + 1 \in DOMAIN ev /\ t[j] = ev[j + 1]
      /\ \A j \in DOMAIN ev : j = 1 \/ (j > 1 /\ j - 1 \in DOMAIN t /\ t[j - 1] = ev[j])
  BY <1>1, TailEvents
<1>3. /\ \A name, j : Last(t, name, j) => Last(ev, name, j + 1)
      /\ \A name : NoEvent(t, name) /\ e.name = name => Last(ev, name, 1)
      /\ \A name : NoEvent(t, name) /\ e.name # name => NoEvent(ev, name)
  BY <1>1, <1>2, TailLast
<1>4. ~Doomed(a, q, ev) BY <1>2 DEF Doomed
<1>5. LockTold(u, a, q, ev, H, W) /\ TreeTold(a, q, ev, T, L) BY <1>4 DEF Told
<1>6. LockTold(u, p, q, t, H, W)
  <2>1. ASSUME NEW j, Last(t, "interlockChng", j) PROVE t[j].d = W
    <3>1. Last(ev, "interlockChng", j + 1) BY <1>3, <2>1
    <3>2. ev[j + 1].d = W BY <1>5, <3>1 DEF LockTold
    <3> QED BY <1>2, <2>1, <3>2 DEF Last
  <2>2. ASSUME NoEvent(t, "interlockChng"), ~Waiting(q), W = H PROVE FlagOK(u, p, H)
    <3>1. CASE e.name = "interlockChng"
      <4>1. Last(ev, "interlockChng", 1) BY <1>3, <2>2, <3>1
      <4>2. e.d = W BY <1>2, <1>5, <4>1 DEF LockTold
      <4> QED BY <2>2, <3>1, <4>2
    <3>2. CASE e.name # "interlockChng"
      <4>1. NoEvent(ev, "interlockChng") BY <1>3, <2>2, <3>2
      <4>2. FlagOK(u, a, H) BY <1>5, <2>2, <4>1 DEF LockTold
      <4> QED BY <3>2, <4>2 DEF FlagOK
    <3> QED BY <3>1, <3>2
  <2> QED BY <2>1, <2>2 DEF LockTold
<1>7. TreeTold(p, q, t, T, L)
  <2>1. ASSUME NEW j, Last(t, "stsChng", j) PROVE Shows(p.cfg, t[j].d, L)
    <3>1. Last(ev, "stsChng", j + 1) BY <1>3, <2>1
    <3>2. Shows(a.cfg, ev[j + 1].d, L) BY <1>5, <3>1 DEF TreeTold
    <3> QED BY <1>2, <2>1, <3>2 DEF Last
  <2>2. ASSUME NoEvent(t, "stsChng"), ~Waiting(q), L = T PROVE p.idList = T
    <3>1. CASE e.name = "stsChng"
      <4>1. Last(ev, "stsChng", 1) BY <1>3, <2>2, <3>1
      <4>2. Shows(a.cfg, e.d, L) BY <1>2, <1>5, <4>1 DEF TreeTold
      <4>3. a.loaded BY <1>1, <2>2, NotWaiting
      <4>4. Shows(p.cfg, e.d, T) /\ Lists(p, e.d) /\ p.loaded /\ T \in States(p.cfg)
        BY <2>2, <3>1, <4>2, <4>3
      <4> QED BY <4>4, ShowsTree
    <3>2. CASE e.name # "stsChng"
      <4>1. NoEvent(ev, "stsChng") BY <1>3, <2>2, <3>2
      <4>2. a.idList = T BY <1>5, <2>2, <4>1 DEF TreeTold
      <4> QED BY <3>2, <4>2
    <3> QED BY <3>1, <3>2
  <2> QED BY <2>1, <2>2 DEF TreeTold
<1> QED BY <1>6, <1>7

(* The events of the socket. *)
LEMMA HandleEventStep ==
    ASSUME IInv, NEW c \in Clients, HandleEvent(c)
    PROVE  IInv'
<1> DEFINE a == pages[c]  q == requests[c]  ev == events[c]  f == pages[c].cfg
<1>1. ClientInv(a, q, ev) /\ GoodPage(a) BY DEF IInv, ClientsInv, ClientInv
<1>2. ev # <<>> /\ ev \in Seq(EventSet) /\ f \in Configs
  BY <1>1 DEF HandleEvent, ClientInv, GoodPage, PageShape
<1>3. PICK e : e = Head(ev) OBVIOUS
<1>4. PICK t : t = Tail(ev) OBVIOUS
<1>5. /\ t \in Seq(EventSet) /\ 1 \in DOMAIN ev /\ e = ev[1]
      /\ \A j \in DOMAIN t : j + 1 \in DOMAIN ev /\ t[j] = ev[j + 1]
  BY <1>2, <1>3, <1>4, TailEvents
<1>6. EventOK(a, e) /\ e \in EventSet BY <1>1, <1>2, <1>5 DEF ClientInv
<1>7. PICK p : p = IF e.name = "stsChng" THEN stsChng(a, e.d)
                   ELSE interlockChng(a, usr[c], e.d)
  OBVIOUS
<1>8. /\ Same(a, p) /\ GoodPage(p) /\ Locked(p)
      /\ \/ e.name = "interlockChng" /\ p.idList = a.idList /\ FlagOK(usr[c], p, e.d)
         \/ e.name = "stsChng" /\ p.ownerFlag = a.ownerFlag /\ Lists(p, e.d)
  <2>1. CASE e.name = "stsChng"
    <3>1. p = stsChng(a, e.d) /\ e.d \in List(a.cfg) BY <1>6, <1>7, <2>1 DEF EventOK
    <3> QED BY <1>1, <2>1, <3>1, StsChng
  <2>2. CASE e.name # "stsChng"
    <3>1. e.name = "interlockChng" BY <1>6, <2>2 DEF EventSet
    <3>2. p = interlockChng(a, usr[c], e.d) BY <1>7, <2>2
    <3> QED BY <1>1, <3>1, <3>2, InterlockChng
  <2> QED BY <2>1, <2>2
<1>9. /\ pages' = [pages EXCEPT ![c] = p] /\ events' = [events EXCEPT ![c] = t]
      /\ UNCHANGED <<usr, cookie, server, polling, requests>>
  BY <1>3, <1>4, <1>7 DEF HandleEvent
<1>10. Apart(c) /\ pages'[c] = p /\ events'[c] = t BY <1>9 DEF Apart, IInv, ServerInv
<1>11. ClientInv(p, q, ev)
  BY <1>1, <1>8, PageStep DEF FirstPost, Same
<1>12. ClientInv(p, q, t) BY <1>5, <1>11 DEF ClientInv
<1>13. Sessions(c)
  <2>1. cookie \in [Users -> Configs] BY DEF IInv, ServerInv
  <2>2. ASSUME Alone(c) PROVE SessionOK(cookie[usr[c]], p, q)
    BY <1>8, <2>2 DEF IInv, OnePageOneConfig, Alone, SessionOK, Same
  <2> QED BY <1>9, <1>10, <2>1, <2>2 DEF Sessions
<1>14. ServerInv' /\ \A g : Moves(g)
  BY <1>9, <1>10, <1>13, SameServer DEF Apart, Sessions, server
<1>15. ASSUME c \notin disturbed' PROVE ToldNow(c)'
  <2>1. c \notin disturbed /\ News(c) = {} /\ e.f = f BY <1>3, <1>15 DEF HandleEvent
  <2>2. NewsOf(q) = {} BY <2>1 DEF News, NewsOf
  <2>3. Told(usr[c], a, q, ev, whoInterlocked[f], whoValue[f], tree[f], l1[f])
    BY <2>1 DEF IInv, ToldInv, ToldNow
  <2>4. tree[f] \in States(f) /\ l1[f] \in States(f) BY <1>2 DEF IInv, ServerInv
  <2>5. p.cfg = f /\ p.loaded = a.loaded BY <1>8 DEF Same
  <2>6. Told(usr[c], p, q, t, whoInterlocked[f], whoValue[f], tree[f], l1[f])
    BY <1>1, <1>2, <1>3, <1>4, <1>8, <2>1, <2>2, <2>3, <2>4, <2>5, EventHandled
  <2> QED BY <1>9, <1>10, <2>5, <2>6, ToldLater DEF server
<1>16. \A d \in Clients \ {c} : d \notin disturbed' => d \notin disturbed
  BY DEF HandleEvent
<1> QED BY <1>9, <1>10, <1>12, <1>13, <1>14, <1>15, <1>16, OneClient

(* The only answer with news arrives. *)
LEMMA OnlyNews ==
    ASSUME NEW a, NEW p, NEW q, NEW r, NEW ev, NEW i \in DOMAIN r, Drops(q, r, i),
           NewsOf(r) = {i}, r[i].sess = a.cfg, p.cfg = a.cfg, ~Doomed(p, q, ev)
    PROVE  ~Doomed(a, r, ev) /\ NewsOf(q) = {} /\ (Waiting(q) <=> Waiting(r))
<1>1. r[i].stage = "served" /\ r[i].kind \in {"get", "lock"} BY DEF NewsOf
<1>2. NewsOf(q) = {} BY DEF NewsOf, Drops
<1>3. Waiting(q) <=> Waiting(r) BY <1>1 DEF Waiting, Drops
<1>4. ~Doomed(a, r, ev) BY DEF Doomed
<1> QED BY <1>2, <1>3, <1>4

(* It is the snapshot. *)
LEMMA GetAnswered ==
    ASSUME NEW u, NEW a, NEW p, NEW q, NEW r, NEW ev, NEW H, NEW W, NEW T, NEW L,
           Told(u, a, r, ev, H, W, T, L), TreeOnce(a, r),
           NEW i \in DOMAIN r, Drops(q, r, i), NewsOf(r) = {i}, r[i].sess = a.cfg,
           r[i].kind = "get", GoodPage(p), p.cfg = a.cfg, p.loaded = a.loaded,
           FlagOK(u, p, r[i].arg.who), Lists(p, r[i].arg.list), T \in States(a.cfg)
    PROVE  Told(u, p, q, ev, H, W, T, L)
<1> SUFFICES ASSUME ~Doomed(p, q, ev)
             PROVE  LockTold(u, p, q, ev, H, W) /\ TreeTold(p, q, ev, T, L)
  BY DEF Told
<1>1. ~Doomed(a, r, ev) /\ NewsOf(q) = {} /\ (Waiting(q) <=> Waiting(r)) BY OnlyNews
<1>2. LockTold(u, a, r, ev, H, W) /\ TreeTold(a, r, ev, T, L) BY <1>1 DEF Told
<1>3. LockTold(u, p, q, ev, H, W)
  <2>1. ASSUME NoEvent(ev, "interlockChng"), ~Waiting(q), W = H PROVE FlagOK(u, p, H)
    <3>1. r[i].arg.who = H BY <1>1, <1>2, <2>1 DEF LockTold, LockNews
    <3> QED BY <3>1
  <2> QED BY <1>1, <1>2, <2>1 DEF LockTold
<1>4. TreeTold(p, q, ev, T, L)
  <2>1. ASSUME NoEvent(ev, "stsChng"), ~Waiting(q), L = T PROVE p.idList = T
    <3>1. Shows(p.cfg, r[i].arg.list, T) BY <1>1, <1>2, <2>1 DEF TreeTold
    <3>2. p.loaded BY <1>1, <2>1, NotWaiting
    <3>3. PICK l : l = r[i].arg.list OBVIOUS
    <3>4. Lists(p, l) /\ Shows(p.cfg, l, T) /\ T \in States(p.cfg) BY <3>1, <3>3
    <3> QED BY <3>2, <3>4, ShowsTree
  <2> QED BY <1>1, <1>2, <2>1 DEF TreeTold
<1> QED BY <1>3, <1>4

(* It is the answer to a click on the lock. *)
LEMMA LockAnswered ==
    ASSUME NEW u, NEW a, NEW p, NEW q, NEW r, NEW ev, NEW H, NEW W, NEW T, NEW L,
           Told(u, a, r, ev, H, W, T, L),
           NEW i \in DOMAIN r, Drops(q, r, i), NewsOf(r) = {i}, r[i].sess = a.cfg,
           r[i].kind = "lock", p.cfg = a.cfg, p.idList = a.idList,
           p.ownerFlag = CASE r[i].arg = "released" -> 0 [] r[i].arg = "taken" -> 1
                           [] r[i].arg = "refused" -> a.ownerFlag
    PROVE  Told(u, p, q, ev, H, W, T, L)
<1> SUFFICES ASSUME ~Doomed(p, q, ev)
             PROVE  LockTold(u, p, q, ev, H, W) /\ TreeTold(p, q, ev, T, L)
  BY DEF Told
<1>1. ~Doomed(a, r, ev) /\ NewsOf(q) = {} /\ (Waiting(q) <=> Waiting(r)) BY OnlyNews
<1>2. LockTold(u, a, r, ev, H, W) /\ TreeTold(a, r, ev, T, L) BY <1>1 DEF Told
<1>3. LockTold(u, p, q, ev, H, W)
  <2>1. ASSUME NoEvent(ev, "interlockChng"), ~Waiting(q), W = H PROVE FlagOK(u, p, H)
    <3>1. LockNews(u, a, r[i], H) BY <1>1, <1>2, <2>1 DEF LockTold
    <3> QED BY <3>1 DEF LockNews, FlagOK
  <2> QED BY <1>1, <1>2, <2>1 DEF LockTold
<1>4. TreeTold(p, q, ev, T, L) BY <1>1, <1>2 DEF TreeTold
<1> QED BY <1>3, <1>4

(* The tree arrives: the page makes its first POST and asks for a snapshot. *)
LEMMA TreeAnswered ==
    ASSUME NEW a, NEW p, NEW r, NEW ev, ClientInv(a, r, ev), NEW i \in DOMAIN r,
           r[i].kind = "tree", GoodPage(p), p.cfg = a.cfg, p.loaded,
           NEW q, q = With(With(Without(r, i), Done("post", a.cfg)),
                           Request("get", a.cfg, None))
    PROVE  /\ ClientInv(p, q, ev)
           /\ \A k : SessionOK(k, a, r) => SessionOK(k, p, q)
           /\ \A u, H, W, T, L : Told(u, a, r, ev, H, W, T, L) => Told(u, p, q, ev, H, W, T, L)
<1>1. PICK q0 : q0 = Without(r, i) OBVIOUS
<1>2. PICK t : t = Done("post", a.cfg) OBVIOUS
<1>3. PICK s : s = Request("get", a.cfg, None) OBVIOUS
<1>4. PICK q1 : q1 = With(q0, t) OBVIOUS
<1>5. q = With(q1, s) BY <1>1, <1>2, <1>3, <1>4
<1>6. a.cfg \in Configs /\ Queue(r) BY DEF ClientInv, GoodPage, PageShape
<1>7. Queue(q0) /\ Drops(q0, r, i) BY <1>1, <1>6, WithoutOne
<1>8. /\ DOMAIN t = RequestFields /\ t.kind = "post" /\ t.sess = a.cfg /\ t.gone = FALSE
      /\ t.stage = "served"
      /\ DOMAIN s = RequestFields /\ s.kind = "get" /\ s.sess = a.cfg /\ s.gone = FALSE
      /\ s.stage = "sent"
  BY <1>2, <1>3 DEF Done, Request, RequestFields
<1>9. Queue(q1) /\ \E n : Adds(q1, q0, n, t) BY <1>4, <1>7, <1>8, WithOne
<1>10. PICK n : Adds(q1, q0, n, t) BY <1>9
<1>11. Queue(q) /\ \E m : Adds(q, q1, m, s) BY <1>5, <1>8, <1>9, WithOne
<1>12. PICK m : Adds(q, q1, m, s) BY <1>11
<1>13. /\ DOMAIN q = (DOMAIN r \ {i}) \cup {n, m} /\ n # m /\ q[n] = t /\ q[m] = s
       /\ n \notin DOMAIN r \ {i} /\ m \notin DOMAIN r \ {i}
       /\ \A j \in DOMAIN r \ {i} : q[j] = r[j]
  BY <1>7, <1>10, <1>12 DEF Adds, Drops
<1>14. \A j \in DOMAIN r \ {i} : RequestOK(a, r[j]) /\ r[j].kind # "tree"
  BY DEF ClientInv, TreeOnce
<1>15. \A x : RequestOK(a, x) /\ x.kind # "tree" => RequestOK(p, x) BY DEF RequestOK
<1>16. RequestOK(p, t) /\ RequestOK(p, s) BY <1>6, <1>8 DEF RequestOK, Own
<1>17. \A j \in DOMAIN q : RequestOK(p, q[j]) BY <1>13, <1>14, <1>15, <1>16
<1>18. TreeOnce(p, q) BY <1>8, <1>13, <1>14 DEF TreeOnce
<1>19. FirstPost(p, q) BY <1>8, <1>13 DEF FirstPost
<1>20. \A j \in DOMAIN ev : EventOK(p, ev[j]) BY DEF ClientInv, EventOK
<1>21. ClientInv(p, q, ev) BY <1>11, <1>17, <1>18, <1>19, <1>20 DEF ClientInv
<1>22. \A k : SessionOK(k, a, r) => SessionOK(k, p, q) BY <1>8, <1>13 DEF SessionOK
<1>23. NewsOf(q) = NewsOf(r) /\ \A j \in NewsOf(r) : q[j] = r[j]
  <2>1. i \notin NewsOf(r) BY DEF NewsOf
  <2>2. n \notin NewsOf(q) /\ m \notin NewsOf(q) BY <1>8, <1>13 DEF NewsOf
  <2>3. \A j \in DOMAIN r \ {i} : j \in NewsOf(q) <=> j \in NewsOf(r) BY <1>13 DEF NewsOf
  <2>4. NewsOf(q) \subseteq DOMAIN q /\ NewsOf(r) \subseteq DOMAIN r BY DEF NewsOf
  <2> QED BY <1>13, <2>1, <2>2, <2>3, <2>4
<1>24. Waiting(q) BY <1>8, <1>13 DEF Waiting
<1>25. ASSUME NEW u, NEW H, NEW W, NEW T, NEW L, Told(u, a, r, ev, H, W, T, L)
       PROVE  Told(u, p, q, ev, H, W, T, L)
  <2>1. Doomed(p, q, ev) <=> Doomed(a, r, ev) BY <1>23 DEF Doomed
  <2>2. LockTold(u, a, r, ev, H, W) => LockTold(u, p, q, ev, H, W) BY <1>24 DEF LockTold
  <2>3. TreeTold(a, r, ev, T, L) => TreeTold(p, q, ev, T, L) BY <1>24 DEF TreeTold
  <2> QED BY <1>25, <2>1, <2>2, <2>3 DEF Told
<1> QED BY <1>21, <1>22, <1>25

(* An answer that does not reload the page. *)
LEMMA CallbackStep ==
    ASSUME IInv, NEW c \in Clients, NEW i \in DOMAIN requests[c],
           requests[c][i].stage = "served", requests[c][i].kind # "config",
           NEW p, NEW q, pages' = [pages EXCEPT ![c] = p],
           requests' = [requests EXCEPT ![c] = q],
           cookie' = [cookie EXCEPT ![usr[c]] = requests[c][i].sess],
           UNCHANGED <<usr, server, polling, events>>, disturbed \subseteq disturbed',
           disturbed' \subseteq disturbed \cup {c},
           ClientInv(p, q, events[c]), NEW f, f = pages[c].cfg, p.cfg = f,
           \A k : SessionOK(k, pages[c], requests[c]) => SessionOK(k, p, q),
           c \notin disturbed' => Told(usr[c], p, q, events[c],
                                       whoInterlocked[f], whoValue[f], tree[f], l1[f])
    PROVE  IInv'
<1> DEFINE r == requests[c]
<1>1. /\ RequestOK(pages[c], r[i]) /\ r[i].sess \in Configs /\ usr[c] \in Users
  BY RequestFacts
<1>2. Apart(c) /\ pages'[c] = p /\ requests'[c] = q BY DEF Apart, IInv, ServerInv
<1>3. Sessions(c)
  <2>1. /\ cookie' \in [Users -> Configs] /\ cookie'[usr[c]] = r[i].sess
        /\ \A u \in Users \ {usr[c]} : cookie'[u] = cookie[u]
    BY <1>1 DEF IInv, ServerInv
  <2>2. ASSUME Alone(c) PROVE SessionOK(r[i].sess, p, q)
    <3>1. SessionOK(cookie[usr[c]], pages[c], r)
      BY <2>2 DEF IInv, OnePageOneConfig, Alone, SessionOK
    <3>2. ~r[i].gone BY <1>1 DEF RequestOK
    <3>3. r[i].sess = cookie[usr[c]] BY <3>1, <3>2 DEF SessionOK
    <3> QED BY <3>1, <3>3
  <2> QED BY <1>2, <2>1, <2>2 DEF Sessions
<1>4. ServerInv' /\ \A g : Moves(g) BY <1>2, <1>3, SameServer DEF Apart, Sessions, server
<1>5. c \notin disturbed' => ToldNow(c)' BY <1>2, ToldLater DEF server
<1> QED BY <1>2, <1>3, <1>4, <1>5, OneClient

(* Those without news. *)
LEMMA PlainAnswer ==
    ASSUME NEW a, NEW p, NEW r, NEW ev, ClientInv(a, r, ev), NEW i \in DOMAIN r,
           r[i].kind \notin {"get", "tree", "lock"},
           GoodPage(p), p.cfg = a.cfg, p.loaded = a.loaded, p.idList = a.idList,
           p.ownerFlag = a.ownerFlag, Locked(p) \/ r[i].kind # "post",
           Locked(a) => Locked(p), NEW q, q = Without(r, i)
    PROVE  /\ ClientInv(p, q, ev)
           /\ \A k : SessionOK(k, a, r) => SessionOK(k, p, q)
           /\ \A u, H, W, T, L : Told(u, a, r, ev, H, W, T, L) => Told(u, p, q, ev, H, W, T, L)
<1>1. Queue(q) /\ Drops(q, r, i) BY WithoutOne DEF ClientInv
<1>2. FirstPost(p, r) BY DEF ClientInv, FirstPost
<1>3. ClientInv(p, r, ev) BY <1>2, PageStep
<1>4. ClientInv(p, q, ev) BY <1>1, <1>3, DropStep
<1>5. i \notin NewsOf(r) BY DEF NewsOf
<1>6. SameNews(q, r) BY <1>1, <1>5, DropsQuietly
<1>7. \A k : SessionOK(k, a, r) => SessionOK(k, p, q) BY <1>1 DEF SessionOK, Drops
<1>8. ASSUME NEW u, NEW H, NEW W, NEW T, NEW L, Told(u, a, r, ev, H, W, T, L)
      PROVE  Told(u, p, q, ev, H, W, T, L)
  <2>1. Told(u, p, r, ev, H, W, T, L) BY <1>8, SameView
  <2> QED BY <1>6, <2>1, NoNews
<1> QED BY <1>4, <1>7, <1>8

(* The answers. *)
LEMMA AnswerStep ==
    ASSUME IInv, NEW c \in Clients, NEW i \in DOMAIN requests[c], Answer(c, i)
    PROVE  IInv'
<1> DEFINE a == pages[c]  r == requests[c]  ev == events[c]  f == pages[c].cfg
           mixed == r[i].kind \in {"get", "lock"} /\ (News(c) # {i} \/ r[i].sess # f)
<1>1. /\ ClientInv(a, r, ev) /\ RequestOK(a, r[i]) /\ f \in Configs /\ usr[c] \in Users
      /\ r[i].sess \in Configs
  BY RequestFacts
<1>2. /\ r[i].stage = "served" /\ cookie' = [cookie EXCEPT ![usr[c]] = r[i].sess]
      /\ UNCHANGED <<usr, server, polling>>
  BY DEF Answer
<1>3. GoodPage(a) /\ TreeOnce(a, r) /\ Queue(r) BY <1>1 DEF ClientInv
<1>4. CASE r[i].kind = "config"
  <2>1. Opens(c, r[i].sess) BY <1>4 DEF Answer
  <2>2. /\ cookie' \in [Users -> Configs] /\ cookie'[usr[c]] = r[i].sess
        /\ \A u \in Users \ {usr[c]} : cookie'[u] = cookie[u]
    BY <1>1, <1>2 DEF IInv, ServerInv
  <2> QED BY <1>1, <1>2, <2>1, <2>2, OpensStep
<1>5. ASSUME r[i].kind # "config", NEW p, NEW q, pages' = [pages EXCEPT ![c] = p],
             requests' = [requests EXCEPT ![c] = q],
             ClientInv(p, q, ev), p.cfg = f,
             \A k : SessionOK(k, a, r) => SessionOK(k, p, q),
             c \notin disturbed' => Told(usr[c], p, q, ev,
                                         whoInterlocked[f], whoValue[f], tree[f], l1[f])
      PROVE  IInv'
  <2>1. /\ UNCHANGED events /\ disturbed \subseteq disturbed'
        /\ disturbed' \subseteq disturbed \cup {c}
    BY <1>5 DEF Answer
  <2> QED BY <1>2, <1>5, <2>1, CallbackStep
<1>6. ASSUME c \notin disturbed', r[i].kind # "config"
      PROVE  /\ Told(usr[c], a, r, ev, whoInterlocked[f], whoValue[f], tree[f], l1[f])
             /\ r[i].kind \in {"get", "lock"} => NewsOf(r) = {i} /\ r[i].sess = f
  <2>1. c \notin disturbed /\ ~mixed BY <1>6 DEF Answer
  <2>2. Told(usr[c], a, r, ev, whoInterlocked[f], whoValue[f], tree[f], l1[f])
    BY <2>1 DEF IInv, ToldInv, ToldNow
  <2>3. News(c) = NewsOf(r) BY DEF News, NewsOf
  <2> QED BY <2>1, <2>2, <2>3
<1>7. PICK w : w = Without(r, i) OBVIOUS
<1>8. CASE r[i].kind = "tree"
  <2>1. ~a.loaded /\ r[i].sess = f BY <1>1, <1>8 DEF RequestOK, Own
  <2>2. PICK p : p = loaded(a) OBVIOUS
  <2>3. PICK q : q = With(With(w, Done("post", f)), Request("get", f, None)) OBVIOUS
  <2>4. pages' = [pages EXCEPT ![c] = p] /\ requests' = [requests EXCEPT ![c] = q]
    BY <1>7, <1>8, <2>1, <2>2, <2>3 DEF Answer
  <2>5. GoodPage(p) /\ p.cfg = f /\ p.loaded BY <1>3, <2>1, <2>2, LoadedPage
  <2>6. /\ ClientInv(p, q, ev) /\ \A k : SessionOK(k, a, r) => SessionOK(k, p, q)
        /\ \A u, H, W, T, L : Told(u, a, r, ev, H, W, T, L) => Told(u, p, q, ev, H, W, T, L)
    BY <1>1, <1>7, <1>8, <2>3, <2>5, TreeAnswered
  <2> QED BY <1>5, <1>6, <1>8, <2>4, <2>5, <2>6
<1>9. ASSUME r[i].kind \in {"fsm", "post", "comm"} PROVE IInv'
  <2>1. PICK p : p = CASE r[i].kind = "fsm" -> [a EXCEPT !.fsmrules = TRUE]
                       [] r[i].kind = "post" -> updateStatePost(a)
                       [] r[i].kind = "comm" -> commandDone(a, r[i].arg.command)
    OBVIOUS
  <2>2. pages' = [pages EXCEPT ![c] = p] /\ requests' = [requests EXCEPT ![c] = w]
    <3>1. CASE r[i].kind = "fsm" BY <1>7, <2>1, <3>1 DEF Answer
    <3>2. CASE r[i].kind = "post" BY <1>7, <2>1, <3>2 DEF Answer
    <3>3. CASE r[i].kind = "comm" BY <1>7, <2>1, <3>3 DEF Answer
    <3> QED BY <1>9, <3>1, <3>2, <3>3
  <2>3. /\ GoodPage(p) /\ p.cfg = f /\ p.loaded = a.loaded /\ p.idList = a.idList
        /\ p.ownerFlag = a.ownerFlag /\ (Locked(p) \/ r[i].kind # "post")
        /\ Locked(a) => Locked(p)
    <3>1. CASE r[i].kind = "fsm"
      <4>1. p = [a EXCEPT !.fsmrules = TRUE] BY <2>1, <3>1
      <4> QED BY <1>3, <3>1, <4>1, QuietPage
    <3>2. CASE r[i].kind = "post"
      <4>1. p = updateStatePost(a) BY <2>1, <3>2
      <4> QED BY <1>3, <4>1, UpdateStatePost DEF Redrawn, Same
    <3>3. CASE r[i].kind = "comm"
      <4>1. PICK command : command = r[i].arg.command OBVIOUS
      <4>2. p = commandDone(a, command) BY <2>1, <3>3, <4>1
      <4> QED BY <1>3, <4>2, CommandDone DEF Redrawn, Same
    <3> QED BY <1>9, <3>1, <3>2, <3>3
  <2>4. /\ ClientInv(p, w, ev) /\ \A k : SessionOK(k, a, r) => SessionOK(k, p, w)
        /\ \A u, H, W, T, L : Told(u, a, r, ev, H, W, T, L) => Told(u, p, w, ev, H, W, T, L)
    BY <1>1, <1>7, <1>9, <2>3, PlainAnswer
  <2> QED BY <1>5, <1>6, <1>9, <2>2, <2>3, <2>4
<1>10. Queue(w) /\ Drops(w, r, i) BY <1>3, <1>7, WithoutOne
<1>11. \A p : \A k : SessionOK(k, a, r) /\ p.cfg = f => SessionOK(k, p, w)
  BY <1>10 DEF SessionOK, Drops
<1>12. CASE r[i].kind = "get"
  <2>1. PICK who : who = r[i].arg.who OBVIOUS
  <2>2. PICK list : list = r[i].arg.list OBVIOUS
  <2>3. list \in List(f) BY <1>1, <1>2, <1>12, <2>2 DEF RequestOK
  <2>4. PICK p : p = updateStateGet(a, usr[c], who, list) OBVIOUS
  <2>5. pages' = [pages EXCEPT ![c] = p] /\ requests' = [requests EXCEPT ![c] = w]
    BY <1>7, <1>12, <2>1, <2>2, <2>4 DEF Answer
  <2>6. Same(a, p) /\ GoodPage(p) /\ Locked(p) /\ Lists(p, list) /\ FlagOK(usr[c], p, who)
    BY <1>3, <2>3, <2>4, UpdateStateGet
  <2>7. p.cfg = f /\ p.loaded = a.loaded BY <2>6 DEF Same
  <2>8. ClientInv(p, r, ev) BY <1>1, <2>6, <2>7, PageStep DEF FirstPost
  <2>9. ClientInv(p, w, ev) BY <1>10, <1>12, <2>8, DropStep
  <2>10. ASSUME c \notin disturbed'
         PROVE  Told(usr[c], p, w, ev, whoInterlocked[f], whoValue[f], tree[f], l1[f])
    <3>1. /\ Told(usr[c], a, r, ev, whoInterlocked[f], whoValue[f], tree[f], l1[f])
          /\ NewsOf(r) = {i} /\ r[i].sess = f
      BY <1>6, <1>12, <2>10
    <3>2. tree[f] \in States(f) BY <1>1 DEF IInv, ServerInv
    <3>3. FlagOK(usr[c], p, r[i].arg.who) /\ Lists(p, r[i].arg.list) BY <2>1, <2>2, <2>6
    <3> QED BY <1>3, <1>10, <1>12, <2>6, <2>7, <3>1, <3>2, <3>3, GetAnswered
  <2> QED BY <1>5, <1>11, <1>12, <2>5, <2>7, <2>9, <2>10
<1>13. CASE r[i].kind = "lock"
  <2>1. PICK msg : msg = r[i].arg OBVIOUS
  <2>2. msg \in {"released", "taken", "refused"} BY <1>1, <1>2, <1>13, <2>1 DEF RequestOK
  <2>3. PICK p : p = lockAnswer(a, msg) OBVIOUS
  <2>4. pages' = [pages EXCEPT ![c] = p] /\ requests' = [requests EXCEPT ![c] = w]
    BY <1>7, <1>13, <2>1, <2>3 DEF Answer
  <2>5. /\ Same(a, p) /\ GoodPage(p) /\ Locked(p) /\ p.idList = a.idList
        /\ p.ownerFlag = CASE msg = "released" -> 0 [] msg = "taken" -> 1
                           [] msg = "refused" -> a.ownerFlag
    BY <1>3, <2>2, <2>3, LockAnswer
  <2>6. p.cfg = f /\ p.loaded = a.loaded BY <2>5 DEF Same
  <2>7. ClientInv(p, r, ev) BY <1>1, <2>5, <2>6, PageStep DEF FirstPost
  <2>8. ClientInv(p, w, ev) BY <1>10, <1>13, <2>7, DropStep
  <2>9. ASSUME c \notin disturbed'
        PROVE  Told(usr[c], p, w, ev, whoInterlocked[f], whoValue[f], tree[f], l1[f])
    <3>1. /\ Told(usr[c], a, r, ev, whoInterlocked[f], whoValue[f], tree[f], l1[f])
          /\ NewsOf(r) = {i} /\ r[i].sess = f
      BY <1>6, <1>13, <2>9
    <3> QED BY <1>10, <1>13, <2>1, <2>5, <2>6, <3>1, LockAnswered
  <2> QED BY <1>5, <1>11, <1>13, <2>4, <2>6, <2>8, <2>9
<1>14. r[i].kind \in {"tree", "fsm", "post", "comm", "get", "lock", "config"}
  BY <1>1 DEF RequestOK, Own
<1> QED BY <1>4, <1>8, <1>9, <1>12, <1>13, <1>14

-----------------------------------------------------------------------------
(* stateChecker.                                                           *)

(* w holds the events ev, and then x. *)
Extended(w, ev, x) ==
    /\ w \in Seq(EventSet)
    /\ \A j \in DOMAIN w : (\E k \in DOMAIN x : w[j] = x[k])
                           \/ (j \in DOMAIN ev /\ w[j] = ev[j])
    /\ \A j \in DOMAIN ev : j \in DOMAIN w /\ w[j] = ev[j]
    /\ \A k \in DOMAIN x : \E j \in DOMAIN w : w[j] = x[k]
    /\ \A name : NoEvent(x, name) =>
          \A j : Last(w, name, j) => Last(ev, name, j) /\ w[j] = ev[j]
    /\ \A name : ~NoEvent(x, name) =>
          \A j : Last(w, name, j) => \E k \in DOMAIN x : w[j] = x[k]

(* More events. *)
LEMMA MoreEvents ==
    ASSUME NEW ev \in Seq(EventSet), NEW x \in Seq(EventSet), NEW w, w = ev \o x
    PROVE  Extended(w, ev, x)
<1>1. /\ Len(ev) \in Nat /\ DOMAIN ev = 1..Len(ev) /\ Len(x) \in Nat /\ DOMAIN x = 1..Len(x)
      /\ w \in Seq(EventSet) /\ DOMAIN w = 1..(Len(ev) + Len(x))
      /\ \A j \in 1..Len(ev) : w[j] = ev[j]
      /\ \A j \in (Len(ev) + 1)..(Len(ev) + Len(x)) : w[j] = x[j - Len(ev)]
  OBVIOUS
<1>2. ASSUME NEW j \in DOMAIN w
      PROVE  (\E k \in DOMAIN x : w[j] = x[k]) \/ (j \in DOMAIN ev /\ w[j] = ev[j])
  <2>1. CASE j <= Len(ev) BY <1>1, <2>1
  <2>2. CASE j > Len(ev)
    <3>1. j - Len(ev) \in DOMAIN x /\ w[j] = x[j - Len(ev)] BY <1>1, <2>2
    <3> QED BY <3>1
  <2> QED BY <1>1, <2>1, <2>2
<1>3. \A j \in DOMAIN ev : j \in DOMAIN w /\ w[j] = ev[j] BY <1>1
<1>4. ASSUME NEW k \in DOMAIN x
      PROVE  /\ Len(ev) + k \in DOMAIN w /\ w[Len(ev) + k] = x[k]
             /\ \A j \in DOMAIN ev : Len(ev) + k > j
  BY <1>1
<1>5. ASSUME NEW name, NoEvent(x, name), NEW j, Last(w, name, j)
      PROVE  Last(ev, name, j) /\ w[j] = ev[j]
  <2>1. j \in DOMAIN w /\ w[j].name = name BY <1>5 DEF Last
  <2>2. j \in DOMAIN ev /\ w[j] = ev[j] BY <1>2, <1>5, <2>1 DEF NoEvent
  <2>3. \A k \in DOMAIN ev : k > j => ev[k].name # name BY <1>3, <1>5 DEF Last
  <2> QED BY <2>1, <2>2, <2>3 DEF Last
<1>6. ASSUME NEW name, ~NoEvent(x, name), NEW j, Last(w, name, j)
      PROVE  \E k \in DOMAIN x : w[j] = x[k]
  <2>1. j \in DOMAIN w BY <1>6 DEF Last
  <2>2. PICK k \in DOMAIN x : x[k].name = name BY <1>6 DEF NoEvent
  <2>3. Len(ev) + k \in DOMAIN w /\ w[Len(ev) + k].name = name BY <1>4, <2>2
  <2>4. j \notin DOMAIN ev BY <1>4, <1>6, <2>2, <2>3 DEF Last
  <2> QED BY <1>2, <2>1, <2>4
<1>7. \A k \in DOMAIN x : \E j \in DOMAIN w : w[j] = x[k] BY <1>4
<1> QED BY <1>1, <1>2, <1>3, <1>5, <1>6, <1>7 DEF Extended

(* The events x tell a page of configuration f what a round changes: the   *)
(* holder is W1 and the states are L1 from then on.                        *)
Tells(x, f, H, H1, W, W1, L, L1) ==
    /\ \A j \in DOMAIN x : x[j].name = "interlockChng" => x[j].d = W1
    /\ NoEvent(x, "interlockChng") => H1 = H /\ W1 = W
    /\ \A j \in DOMAIN x : x[j].name = "stsChng" => Shows(f, x[j].d, L1)
    /\ NoEvent(x, "stsChng") => L1 = L

(* A round of the checker tells the page what it changes. *)
LEMMA RoundTold ==
    ASSUME NEW u, NEW p, NEW q, NEW ev \in Seq(EventSet), NEW x \in Seq(EventSet),
           NEW H, NEW H1, NEW W, NEW W1, NEW T, NEW L, NEW L1,
           Told(u, p, q, ev, H, W, T, L), NEW w, w = ev \o x,
           Tells(x, p.cfg, H, H1, W, W1, L, L1)
    PROVE  Told(u, p, q, w, H1, W1, T, L1)
<1> SUFFICES ASSUME ~Doomed(p, q, w)
             PROVE  LockTold(u, p, q, w, H1, W1) /\ TreeTold(p, q, w, T, L1)
  BY DEF Told
<1> USE DEF Tells
<1>0. Extended(w, ev, x) BY MoreEvents
<1>1. \A j \in DOMAIN ev : j \in DOMAIN w /\ w[j] = ev[j] BY <1>0 DEF Extended
<1>2. \A k \in DOMAIN x : \E j \in DOMAIN w : w[j] = x[k] BY <1>0 DEF Extended
<1>3. ~Doomed(p, q, ev) BY <1>1 DEF Doomed
<1>4. LockTold(u, p, q, ev, H, W) /\ TreeTold(p, q, ev, T, L) BY <1>3 DEF Told
<1>5. \A name : NoEvent(w, name) => NoEvent(ev, name) /\ NoEvent(x, name)
  BY <1>1, <1>2 DEF NoEvent
<1>6. \A name : NoEvent(x, name) =>
                   \A j : Last(w, name, j) => Last(ev, name, j) /\ w[j] = ev[j]
  BY <1>0 DEF Extended
<1>7. \A name : ~NoEvent(x, name) =>
                   \A j : Last(w, name, j) => \E k \in DOMAIN x : w[j] = x[k]
  BY <1>0 DEF Extended
<1>8. LockTold(u, p, q, w, H1, W1)
  <2>1. ASSUME NEW j, Last(w, "interlockChng", j) PROVE w[j].d = W1
    <3>1. CASE NoEvent(x, "interlockChng")
      BY <1>4, <1>6, <2>1, <3>1 DEF LockTold
    <3>2. CASE ~NoEvent(x, "interlockChng")
      <4>1. PICK k \in DOMAIN x : w[j] = x[k] BY <1>7, <2>1, <3>2
      <4> QED BY <2>1, <4>1 DEF Last
    <3> QED BY <3>1, <3>2
  <2>2. ASSUME NoEvent(w, "interlockChng"), ~Waiting(q), W1 = H1
        PROVE  /\ NewsOf(q) = {} => FlagOK(u, p, H1)
               /\ \A i \in NewsOf(q) : LockNews(u, p, q[i], H1)
    <3>1. NoEvent(ev, "interlockChng") /\ H1 = H /\ W1 = W BY <1>5, <2>2
    <3> QED BY <1>4, <2>2, <3>1 DEF LockTold
  <2> QED BY <2>1, <2>2 DEF LockTold
<1>9. TreeTold(p, q, w, T, L1)
  <2>1. ASSUME NEW j, Last(w, "stsChng", j) PROVE Shows(p.cfg, w[j].d, L1)
    <3>1. CASE NoEvent(x, "stsChng")
      BY <1>4, <1>6, <2>1, <3>1 DEF TreeTold
    <3>2. CASE ~NoEvent(x, "stsChng")
      <4>1. PICK k \in DOMAIN x : w[j] = x[k] BY <1>7, <2>1, <3>2
      <4> QED BY <2>1, <4>1 DEF Last
    <3> QED BY <3>1, <3>2
  <2>2. ASSUME NoEvent(w, "stsChng"), ~Waiting(q), L1 = T
        PROVE  /\ (\A i \in NewsOf(q) : q[i].kind # "get") => p.idList = T
               /\ \A i \in NewsOf(q) : q[i].kind = "get" => Shows(p.cfg, q[i].arg.list, T)
    <3>1. NoEvent(ev, "stsChng") /\ L1 = L BY <1>5, <2>2
    <3> QED BY <1>4, <2>2, <3>1 DEF TreeTold
  <2> QED BY <2>1, <2>2 DEF TreeTold
<1> QED BY <1>8, <1>9

(* The events of a round for one page: of the lock, of the states. *)
IsRound(x, a, b, e1, e2) ==
    /\ x \in Seq(EventSet)
    /\ \A j \in DOMAIN x : x[j].name = "interlockChng" => x[j] = e1
    /\ \A j \in DOMAIN x : x[j].name = "stsChng" => b = <<e2>> /\ x[j] = e2
    /\ a = <<e1>> => ~NoEvent(x, "interlockChng")
    /\ b = <<e2>> => ~NoEvent(x, "stsChng")

(* They are the ones that the round puts together. *)
LEMMA RoundEvents ==
    ASSUME NEW e1 \in EventSet, NEW e2 \in EventSet,
           e1.name = "interlockChng", e2.name = "stsChng",
           NEW a, a = <<>> \/ a = <<e1>>, NEW b, b = <<>> \/ b = <<e2>>, NEW x, x = a \o b
    PROVE  IsRound(x, a, b, e1, e2)
<1> USE DEF IsRound
<1>0. <<>> # <<e1>> /\ <<>> # <<e2>> OBVIOUS
<1>1. CASE a = <<e1>> /\ b = <<e2>>
  <2>1. x = <<e1>> \o <<e2>> BY <1>1
  <2>2. DOMAIN x = {1, 2} /\ x[1] = e1 /\ x[2] = e2 /\ x \in Seq(EventSet) BY <2>1
  <2> QED BY <1>1, <2>2 DEF NoEvent
<1>2. CASE a = <<e1>> /\ b = <<>>
  <2>1. x = <<e1>> BY <1>2
  <2>2. DOMAIN x = {1} /\ x[1] = e1 /\ x \in Seq(EventSet) BY <2>1
  <2> QED BY <1>0, <1>2, <2>2 DEF NoEvent
<1>3. CASE a = <<>> /\ b = <<e2>>
  <2>1. x = <<e2>> BY <1>3
  <2>2. DOMAIN x = {1} /\ x[1] = e2 /\ x \in Seq(EventSet) BY <2>1
  <2> QED BY <1>0, <1>3, <2>2 DEF NoEvent
<1>4. CASE a = <<>> /\ b = <<>>
  <2>1. x = <<>> BY <1>4
  <2>2. DOMAIN x = {} /\ x \in Seq(EventSet) BY <2>1
  <2> QED BY <1>0, <1>4, <2>2 DEF NoEvent
<1> QED BY <1>1, <1>2, <1>3, <1>4

(* A round of the checker. *)
LEMMA StateCheckerStep ==
    ASSUME IInv, NEW f \in Configs, NEW seen, stateChecker(f, seen)
    PROVE  IInv'
<1>1. PICK holder : holder = IF Expired(f) THEN None ELSE whoInterlocked[f] OBVIOUS
<1>2. holder \in Holders BY <1>1 DEF IInv, ServerInv, Holders
<1>3. PICK list : list = getStatesList(f) OBVIOUS
<1>4. list \in List(f) /\ Shows(f, list, tree[f])
  BY <1>3, StatesOfTree DEF IInv, ServerInv
<1>5. PICK e1 : e1 = [name |-> "interlockChng", f |-> f, d |-> holder] OBVIOUS
<1>6. PICK e2 : e2 = [name |-> "stsChng", f |-> f, d |-> list] OBVIOUS
<1>7. /\ e1 \in EventSet /\ e1.name = "interlockChng" /\ e1.f = f /\ e1.d = holder
      /\ e2 \in EventSet /\ e2.name = "stsChng" /\ e2.f = f /\ e2.d = list
  BY <1>2, <1>4, <1>5, <1>6 DEF EventSet
<1> DEFINE locks == IF seen = whoValue[f] THEN <<>> ELSE <<e1>>
           states == IF l1[f] = tree[f] THEN <<>> ELSE <<e2>>
           more(c) == IF ~pages[c].connected THEN <<>>
                      ELSE locks \o (IF c \in On(f) THEN states ELSE <<>>)
<1>8. /\ seen \in {holder, whoValue[f]}
      /\ whoInterlocked' = [whoInterlocked EXCEPT ![f] = holder]
      /\ whoValue' = [whoValue EXCEPT ![f] = holder]
      /\ l1' = [l1 EXCEPT ![f] = tree[f]]
      /\ events' = [c \in Clients |-> events[c] \o more(c)]
      /\ disturbed' = disturbed
             \cup {c \in Clients : ~pages[c].connected /\ locks # <<>>}
             \cup {c \in On(f) : ~pages[c].connected /\ states # <<>>}
             \cup (IF seen # holder \/ (Expired(f) /\ holder = whoValue[f])
                   THEN On(f) ELSE {})
      /\ UNCHANGED <<usr, cookie, tree, pages, requests>>
  BY <1>1, <1>3, <1>5, <1>6 DEF stateChecker
<1>9. locks # <<>> <=> seen # whoValue[f] OBVIOUS
<1>10. states # <<>> <=> l1[f] # tree[f] OBVIOUS
<1>11. ASSUME NEW c \in Clients
       PROVE  /\ more(c) \in Seq(EventSet)
              /\ \A j \in DOMAIN more(c) : more(c)[j].name = "interlockChng" => more(c)[j] = e1
              /\ \A j \in DOMAIN more(c) : more(c)[j].name = "stsChng" =>
                                              c \in On(f) /\ more(c)[j] = e2
              /\ pages[c].connected /\ seen # whoValue[f] => ~NoEvent(more(c), "interlockChng")
              /\ pages[c].connected /\ c \in On(f) /\ l1[f] # tree[f] =>
                    ~NoEvent(more(c), "stsChng")
  <2>1. CASE pages[c].connected
    <3>1. PICK a : a = locks OBVIOUS
    <3>2. PICK b : b = IF c \in On(f) THEN states ELSE <<>> OBVIOUS
    <3>3. PICK x : x = a \o b OBVIOUS
    <3>4. x = more(c) BY <2>1, <3>1, <3>2, <3>3
    <3>5. (a = <<>> \/ a = <<e1>>) /\ (seen # whoValue[f] => a = <<e1>>) BY <3>1
    <3>6. (b = <<>> \/ b = <<e2>>) /\ (b = <<e2>> <=> c \in On(f) /\ l1[f] # tree[f]) BY <3>2
    <3> HIDE DEF more, locks, states
    <3>7. IsRound(x, a, b, e1, e2)
      BY <1>7, <3>3, <3>5, <3>6, RoundEvents
    <3> QED BY <3>4, <3>5, <3>6, <3>7 DEF IsRound
  <2>2. CASE ~pages[c].connected
    <3>1. more(c) = <<>> BY <2>2
    <3> QED BY <2>2, <3>1
  <2> QED BY <2>1, <2>2
<1> HIDE DEF locks, states, more
<1>12. /\ whoInterlocked' \in [Configs -> Holders] /\ whoInterlocked'[f] = holder
       /\ whoValue' \in [Configs -> Holders] /\ whoValue'[f] = holder
       /\ DOMAIN l1' = Configs /\ l1'[f] = tree[f]
       /\ \A g \in Configs \ {f} : /\ whoInterlocked'[g] = whoInterlocked[g]
                                   /\ whoValue'[g] = whoValue[g] /\ l1'[g] = l1[g]
       /\ \A g \in Configs : l1'[g] \in States(g)
       /\ DOMAIN events' = Clients /\ \A c \in Clients : events'[c] = events[c] \o more(c)
  BY <1>2, <1>8 DEF IInv, ServerInv
<1>13. ServerInv' BY <1>8, <1>12 DEF IInv, ServerInv
<1>14. OnePageOneConfig' BY <1>8 DEF IInv, OnePageOneConfig
<1>15. ClientsInv'
  <2> SUFFICES ASSUME NEW c \in Clients PROVE ClientInv(pages[c], requests[c], events'[c])
    BY <1>8 DEF ClientsInv
  <2>1. ClientInv(pages[c], requests[c], events[c]) BY DEF IInv, ClientsInv
  <2>2. Extended(events'[c], events[c], more(c))
    BY <1>11, <1>12, <2>1, MoreEvents DEF ClientInv
  <2>3. ASSUME NEW k \in DOMAIN more(c) PROVE EventOK(pages[c], more(c)[k])
    BY <1>2, <1>4, <1>7, <1>11 DEF EventOK, On
  <2> QED BY <2>1, <2>2, <2>3 DEF ClientInv, Extended
<1>16. ToldInv'
  <2> SUFFICES ASSUME NEW c \in Clients, c \notin disturbed' PROVE ToldNow(c)'
    BY DEF ToldInv
  <2> DEFINE p == pages[c]  q == requests[c]  ev == events[c]  g == pages[c].cfg
  <2>1. c \notin disturbed BY <1>8
  <2>2. Told(usr[c], p, q, ev, whoInterlocked[g], whoValue[g], tree[g], l1[g])
    BY <2>1 DEF IInv, ToldInv, ToldNow
  <2>3. ev \in Seq(EventSet) /\ g \in Configs
    BY DEF IInv, ClientsInv, ClientInv, GoodPage, PageShape
  <2>4. PICK x : x = more(c) OBVIOUS
  <2>5. /\ x \in Seq(EventSet)
        /\ \A j \in DOMAIN x : x[j].name = "interlockChng" => x[j] = e1
        /\ \A j \in DOMAIN x : x[j].name = "stsChng" => c \in On(f) /\ x[j] = e2
        /\ p.connected /\ seen # whoValue[f] => ~NoEvent(x, "interlockChng")
        /\ p.connected /\ c \in On(f) /\ l1[f] # tree[f] => ~NoEvent(x, "stsChng")
    BY <1>11, <2>4
  <2>6. PICK w : w = ev \o x OBVIOUS
  <2>7. events'[c] = w BY <1>12, <2>4, <2>6
  <2>8. Extended(w, ev, x) BY <2>3, <2>5, <2>6, MoreEvents
  <2>9. Told(usr[c], p, q, w, whoInterlocked'[g], whoValue'[g], tree[g], l1'[g])
    <3>1. CASE g = f
      <4>1. c \in On(f) BY <3>1 DEF On
      <4>2. /\ seen = holder /\ ~(Expired(f) /\ holder = whoValue[f])
            /\ p.connected \/ (seen = whoValue[f] /\ l1[f] = tree[f])
        BY <1>8, <1>9, <1>10, <4>1
      <4>3. NoEvent(x, "interlockChng") => whoInterlocked'[g] = whoInterlocked[g]
                                           /\ whoValue'[g] = whoValue[g]
        BY <1>1, <1>12, <2>5, <3>1, <4>2
      <4>4. NoEvent(x, "stsChng") => l1'[g] = l1[g]
        BY <1>12, <2>5, <3>1, <4>1, <4>2
      <4>5. \A j \in DOMAIN x : x[j].name = "interlockChng" => x[j].d = whoValue'[g]
        BY <1>7, <1>12, <2>5, <3>1
      <4>6. \A j \in DOMAIN x : x[j].name = "stsChng" => Shows(p.cfg, x[j].d, l1'[g])
        BY <1>4, <1>7, <1>12, <2>5, <3>1
      <4>7. Tells(x, g, whoInterlocked[g], whoInterlocked'[g], whoValue[g], whoValue'[g],
                  l1[g], l1'[g])
        BY <4>3, <4>4, <4>5, <4>6 DEF Tells
      <4> QED BY <2>2, <2>3, <2>5, <2>6, <4>7, RoundTold, Zenon
    <3>2. CASE g # f
      <4>1. /\ whoInterlocked'[g] = whoInterlocked[g] /\ whoValue'[g] = whoValue[g]
            /\ l1'[g] = l1[g]
        BY <1>12, <2>3, <3>2
      <4>2. NoEvent(x, "stsChng") BY <2>5, <3>2 DEF NoEvent, On
      <4>3. CASE NoEvent(x, "interlockChng")
        <5>1. /\ \A j \in DOMAIN x : x[j].name = "interlockChng" => x[j].d = whoValue[g]
              /\ \A j \in DOMAIN x : x[j].name = "stsChng" => Shows(p.cfg, x[j].d, l1[g])
          BY <4>2, <4>3 DEF NoEvent
        <5>2. Tells(x, g, whoInterlocked[g], whoInterlocked'[g], whoValue[g], whoValue'[g],
                    l1[g], l1'[g])
          BY <4>1, <5>1 DEF Tells
        <5> QED BY <2>2, <2>3, <2>5, <2>6, <5>2, RoundTold, Zenon
      <4>4. CASE ~NoEvent(x, "interlockChng")
        <5>1. PICK k \in DOMAIN x : x[k].name = "interlockChng" BY <4>4 DEF NoEvent
        <5>2. x[k].f = f BY <1>7, <2>5, <5>1
        <5>3. PICK j \in DOMAIN w : w[j] = x[k] BY <2>8 DEF Extended
        <5>4. Doomed(p, q, w) BY <3>2, <5>2, <5>3 DEF Doomed
        <5> QED BY <5>4 DEF Told
      <4> QED BY <4>3, <4>4
    <3> QED BY <3>1, <3>2
  <2> QED BY <1>8, <2>7, <2>9 DEF ToldNow
<1> QED BY <1>13, <1>14, <1>15, <1>16 DEF IInv

-----------------------------------------------------------------------------
(* The other steps, and all of them.                                       *)

(* What a user does on a page. *)
LEMMA UserStep ==
    ASSUME IInv, NEW c \in Clients, User(c)
    PROVE  IInv'
<1>1. /\ GoodPage(pages[c]) /\ PageShape(pages[c]) /\ pages[c].cfg \in Configs
      /\ usr[c] \in Users /\ cookie \in [Users -> Configs]
  BY DEF IInv, ServerInv, ClientsInv, ClientInv, GoodPage, PageShape
<1>2. ASSUME clickLock(c) PROVE IInv'
  BY <1>2, SendStep DEF clickLock
<1>3. ASSUME NEW k, NEW command, Command(c, k, command) PROVE IInv'
  <2>1. PICK arg : arg = [node |-> Tree[pages[c].cfg][k], command |-> command] OBVIOUS
  <2>2. Send(c, Request("comm", cookie[usr[c]], arg)) BY <1>3, <2>1 DEF Command
  <2> QED BY <1>3, <2>2, SendStep DEF Command
<1>4. ASSUME NEW command, sendComm(c, command) PROVE IInv'
  BY <1>3, <1>4 DEF sendComm
<1>5. ASSUME NEW k, include(c, k) \/ exclude(c, k) PROVE IInv'
  BY <1>3, <1>5 DEF include, exclude
<1>6. ASSUME NEW k \in DOMAIN pages[c].idList, selectNode(c, k) PROVE IInv'
  <2>1. PICK p : p = changed([pages[c] EXCEPT !.selected = k]) OBVIOUS
  <2>2. pages[c].loaded /\ k \in Nodes(pages[c].cfg)
    BY <1>1, <1>6 DEF selectNode, PageShape, States
  <2>3. Redrawn(pages[c], p) /\ Locked(p) BY <1>1, <2>1, <2>2, SelectedPage
  <2>4. pages' = [pages EXCEPT ![c] = p] BY <1>6, <2>1 DEF selectNode
  <2> QED BY <1>6, <2>3, <2>4, ViewStep DEF selectNode, Redrawn, Same
<1>7. ASSUME openNode(c) PROVE IInv'
  <2>1. PICK p : p = open_node(pages[c]) OBVIOUS
  <2>2. Redrawn(pages[c], p) /\ Locked(p) BY <1>1, <2>1, OpenedPage
  <2>3. pages' = [pages EXCEPT ![c] = p] BY <1>7, <2>1 DEF openNode
  <2> QED BY <1>7, <2>2, <2>3, ViewStep DEF openNode, Redrawn, Same
<1>8. ASSUME NEW f \in Configs, updateConfigs(c, f) PROVE IInv'
  BY <1>8, SendStep DEF updateConfigs
<1>9. ASSUME Reload(c) PROVE IInv'
  <2>1. PICK f : f = cookie[usr[c]] OBVIOUS
  <2>2. f \in Configs /\ Opens(c, f) BY <1>1, <1>9, <2>1 DEF Reload
  <2> QED BY <1>1, <1>9, <2>1, <2>2, OpensStep DEF Reload
<1> QED BY <1>2, <1>4, <1>5, <1>6, <1>7, <1>8, <1>9, DisconnectStep DEF User

(* The socket connects again. *)
LEMMA ReconnectStep ==
    ASSUME IInv, NEW c \in Clients, Reconnect(c)
    PROVE  IInv'
<1>1. GoodPage(pages[c]) BY DEF IInv, ClientsInv, ClientInv
<1>2. PICK p : p = [pages[c] EXCEPT !.connected = TRUE] OBVIOUS
<1>3. /\ GoodPage(p) /\ p.cfg = pages[c].cfg /\ p.loaded = pages[c].loaded
      /\ p.idList = pages[c].idList /\ p.ownerFlag = pages[c].ownerFlag
      /\ (Locked(pages[c]) => Locked(p))
  BY <1>1, <1>2, QuietPage
<1>4. pages' = [pages EXCEPT ![c] = p] BY <1>2 DEF Reconnect
<1> QED BY <1>3, <1>4, ViewStep DEF Reconnect

(* Steps of the server that no page takes part in. *)
LEMMA ServerStep ==
    ASSUME IInv, UNCHANGED <<usr, cookie, whoInterlocked, polling, pages, events, requests>>,
           DOMAIN tree' = Configs, \A g \in Configs : tree'[g] \in States(g),
           \A d \in Clients : d \notin disturbed' => d \notin disturbed /\ Moves(pages[d].cfg)
    PROVE  IInv'
<1>1. ServerInv' BY DEF IInv, ServerInv, polling
<1>2. ClientsInv' /\ OnePageOneConfig' BY DEF IInv, ClientsInv, OnePageOneConfig
<1>3. ASSUME NEW d \in Clients, d \notin disturbed' PROVE ToldNow(d)'
  <2> DEFINE f == pages[d].cfg
  <2>1. d \notin disturbed /\ Moves(f) BY <1>3
  <2>2. Told(usr[d], pages[d], requests[d], events[d],
             whoInterlocked[f], whoValue[f], tree[f], l1[f])
    BY <2>1 DEF IInv, ToldInv, ToldNow
  <2>3. Told(usr[d], pages[d], requests[d], events[d],
             whoInterlocked[f], whoValue[f], tree'[f], l1[f])
    BY <2>1, <2>2, ServerMoves DEF Moves
  <2> QED BY <2>3 DEF ToldNow, polling
<1>4. ToldInv' BY <1>3 DEF ToldInv
<1> QED BY <1>1, <1>2, <1>4 DEF IInv

(* A process changes its state by itself. *)
LEMMA StateChangesStep ==
    ASSUME IInv, NEW f \in Configs, NEW k \in Nodes(f), NEW s \in StateSets,
           StateChanges(f, k, s)
    PROVE  IInv'
<1>1. PICK new : new = [tree[f] EXCEPT ![k].state = s] OBVIOUS
<1>2. tree[f] \in [Nodes(f) -> NodeStates] BY DEF IInv, ServerInv, States
<1>3. [tree[f][k] EXCEPT !.state = s] \in NodeStates BY <1>2 DEF NodeStates
<1>4. new \in States(f) BY <1>1, <1>2, <1>3 DEF States
<1>5. Becomes(f, new) BY <1>1 DEF StateChanges
<1>6. UNCHANGED <<whoInterlocked, polling>> BY DEF StateChanges
<1>7. /\ DOMAIN tree' = Configs /\ \A g \in Configs : tree'[g] \in States(g)
      /\ \A d \in Clients : d \notin disturbed' => d \notin disturbed /\ Moves(pages[d].cfg)
  BY <1>4, <1>5, <1>6, BecomesMoves
<1> QED BY <1>7, ServerStep DEF StateChanges

(* Nothing that the invariant speaks of changes. *)
LEMMA IdleStep ==
    ASSUME IInv, UNCHANGED <<usr, cookie, whoInterlocked, tree, polling, pages, events,
                             requests, disturbed>>
    PROVE  IInv'
<1>1. \A f : Moves(f) BY DEF Moves, polling
<1>2. DOMAIN tree' = Configs /\ \A g \in Configs : tree'[g] \in States(g)
  BY DEF IInv, ServerInv
<1> QED BY <1>1, <1>2, ServerStep

(* Every step preserves the invariant. *)
LEMMA Step ==
    ASSUME IInv, [Next]_vars
    PROVE  IInv'
<1>1. ASSUME NEW c \in Clients, NEW i \in DOMAIN requests[c], Serve(c, i) PROVE IInv'
  BY <1>1, InterlockStep, InterlockTakeStep, AjaxParseStep, StatesListStep, ConfigsJsonStep
     DEF Serve
<1>2. ASSUME NEW f \in Configs, LeaseRunsOut(f) PROVE IInv'
  BY <1>2, IdleStep DEF LeaseRunsOut
<1>3. CASE UNCHANGED vars BY <1>3, IdleStep DEF vars, server
<1>4. CASE Next
  BY <1>1, <1>2, <1>4, UserStep, AbortedStep, AnswerStep, HandleEventStep, ReconnectStep,
     StateCheckerStep, StateChangesStep DEF Next
<1> QED BY <1>3, <1>4

-----------------------------------------------------------------------------
(* The initial state.                                                      *)

(* A page that has been loaded while nobody is in control. *)
LEMMA ReadyPage ==
    ASSUME NEW f \in Configs, NEW p, p = Ready(f)
    PROVE  /\ GoodPage(p) /\ Locked(p) /\ p.cfg = f /\ p.loaded /\ p.ownerFlag = 0
           /\ p.idList = [k \in Nodes(f) |-> InitialNode]
<1>1. PICK a : a = Page(f, 0) OBVIOUS
<1>2. GoodPage(a) /\ a.cfg = f /\ ~a.loaded BY <1>1, NewPage
<1>3. PICK b : b = loaded(a) OBVIOUS
<1>4. GoodPage(b) /\ b.cfg = f /\ b.loaded BY <1>2, <1>3, LoadedPage
<1>5. PICK d : d = [b EXCEPT !.fsmrules = TRUE] OBVIOUS
<1>6. GoodPage(d) /\ d.cfg = f /\ d.loaded BY <1>4, <1>5, QuietPage
<1>7. PICK e : e = updateStatePost(d) OBVIOUS
<1>8. GoodPage(e) /\ e.cfg = f /\ e.loaded
  BY <1>6, <1>7, UpdateStatePost DEF Redrawn, Same
<1>9. PICK list : list = [n \in Range(Tree[f]) |-> InitialNode] OBVIOUS
<1>10. InitialNode \in NodeStates BY GuiAssumption DEF InitialNode, NodeStates
<1>11. list \in List(f) BY <1>9, <1>10 DEF List
<1>12. p = updateStateGet(e, local_user, None, list)
  BY <1>1, <1>3, <1>5, <1>7, <1>9 DEF Ready
<1>13. Same(e, p) /\ GoodPage(p) /\ Locked(p) /\ Lists(p, list) /\ FlagOK(local_user, p, None)
  BY <1>8, <1>11, <1>12, UpdateStateGet
<1>14. p.cfg = f /\ p.loaded BY <1>8, <1>13 DEF Same
<1>15. None # local_user
  <2>1. \A S : local_user \in S \cup {local_user} OBVIOUS
  <2>2. None \notin Users BY GuiAssumption
  <2>3. local_user \in Users BY <2>1, Zenon DEF Users
  <2> QED BY <2>2, <2>3
<1>16. p.ownerFlag = 0 BY <1>13, <1>15 DEF FlagOK, GoodPage, PageShape
<1>17. PICK T : T = [k \in Nodes(f) |-> InitialNode] OBVIOUS
<1>18. T \in States(f) BY <1>10, <1>17 DEF States
<1>19. Shows(f, list, T) BY <1>9, <1>17, TreeFacts DEF Shows
<1>20. p.idList = T BY <1>13, <1>14, <1>18, <1>19, ShowsTree
<1> QED BY <1>13, <1>14, <1>16, <1>17, <1>20

(* The invariant holds initially. *)
LEMMA Start ==
    ASSUME Init
    PROVE  IInv
<1> DEFINE f == InitialConfig
<1>1. f \in Configs BY GuiAssumption
<1>2. PICK p : p = Ready(f) OBVIOUS
<1>3. /\ GoodPage(p) /\ Locked(p) /\ p.cfg = f /\ p.loaded /\ p.ownerFlag = 0
      /\ p.idList = [k \in Nodes(f) |-> InitialNode]
  BY <1>1, <1>2, ReadyPage
<1>4. ASSUME NEW c \in Clients PROVE usr[c] \in Users
  <2>1. usr \in Assignments BY DEF Init
  <2>2. PICK A : A = {usr[d] : d \in Clients} OBVIOUS
  <2>3. A \in {{a[d] : d \in Clients} : a \in Assignments} BY <2>1, <2>2
  <2>4. usr[c] \in A BY <2>2
  <2> QED BY <2>3, <2>4 DEF Users
<1>5. \A g \in Configs : [k \in Nodes(g) |-> InitialNode] \in States(g)
  BY GuiAssumption DEF InitialNode, NodeStates, States
<1>6. ServerInv
  <2>1. cookie \in [Users -> Configs] BY <1>1 DEF Init
  <2>2. whoInterlocked \in [Configs -> Holders] /\ whoValue \in [Configs -> Holders]
    BY DEF Init, Holders
  <2>3. DOMAIN tree = Configs /\ \A g \in Configs : tree[g] \in States(g) BY <1>5 DEF Init
  <2>4. DOMAIN l1 = Configs /\ \A g \in Configs : l1[g] \in States(g) BY <2>3 DEF Init
  <2>5. DOMAIN pages = Clients /\ DOMAIN requests = Clients /\ DOMAIN events = Clients
    BY DEF Init
  <2> QED BY <1>4, <2>1, <2>2, <2>3, <2>4, <2>5 DEF ServerInv
<1>7. ASSUME NEW c \in Clients
      PROVE  pages[c] = p /\ DOMAIN requests[c] = {} /\ events[c] = <<>>
  BY <1>2 DEF Init, NoRequests
<1>8. ClientsInv
  <2> SUFFICES ASSUME NEW c \in Clients PROVE ClientInv(p, requests[c], events[c])
    BY <1>7 DEF ClientsInv
  <2>1. Queue(requests[c]) BY <1>7, FS_EmptySet DEF Queue
  <2>2. TreeOnce(p, requests[c]) BY <1>3, <1>7 DEF TreeOnce
  <2>3. FirstPost(p, requests[c]) BY <1>3 DEF FirstPost
  <2>4. events[c] \in Seq(EventSet) /\ \A j \in DOMAIN events[c] : EventOK(p, events[c][j])
    <3>1. <<>> \in Seq(EventSet) /\ DOMAIN <<>> = {} OBVIOUS
    <3> QED BY <1>7, <3>1
  <2> QED BY <1>3, <1>7, <2>1, <2>2, <2>3, <2>4 DEF ClientInv
<1>9. OnePageOneConfig
  <2>1. \A c \in Clients : cookie[usr[c]] = f BY <1>4 DEF Init
  <2> QED BY <1>3, <1>7, <2>1 DEF OnePageOneConfig
<1>10. ASSUME NEW c \in Clients PROVE ToldNow(c)
  <2>1. /\ whoInterlocked[f] = None /\ tree[f] = [k \in Nodes(f) |-> InitialNode]
    BY <1>1 DEF Init
  <2>2. NewsOf(requests[c]) = {} BY <1>7 DEF NewsOf
  <2>3. FlagOK(usr[c], p, None) BY <1>3, <1>4, GuiAssumption DEF FlagOK
  <2>4. LockTold(usr[c], p, requests[c], <<>>, whoInterlocked[f], whoValue[f])
    BY <2>1, <2>2, <2>3 DEF LockTold, Last
  <2>5. TreeTold(p, requests[c], <<>>, tree[f], l1[f])
    BY <1>3, <2>1, <2>2 DEF TreeTold, Last
  <2> QED BY <1>3, <1>7, <2>4, <2>5 DEF ToldNow, Told
<1> QED BY <1>6, <1>8, <1>9, <1>10 DEF IInv, ToldInv

-----------------------------------------------------------------------------
(* The theorems.                                                           *)

(* The invariant holds in every state. *)
THEOREM Inductive == Spec => []IInv
<1>1. Init => IInv BY Start
<1>2. IInv /\ [Next]_vars => IInv' BY Step
<1> QED BY <1>1, <1>2, PTL DEF Spec

(* Nothing on its way, and nothing left to broadcast: then the page knows. *)
LEMMA SettledPage ==
    ASSUME IInv, NEW c \in Clients \ disturbed, Settled(c)
    PROVE  /\ FlagRight(c) /\ pages[c].idList = tree[pages[c].cfg]
<1> DEFINE p == pages[c]  q == requests[c]  f == pages[c].cfg
<1>1. /\ DOMAIN q = {} /\ events[c] = <<>> /\ whoValue[f] = whoInterlocked[f]
      /\ l1[f] = tree[f]
  BY DEF Settled, NoRequests
<1>2. NewsOf(q) = {} /\ ~Waiting(q) BY <1>1 DEF NewsOf, Waiting
<1>3. ~Doomed(p, q, events[c]) BY <1>1, <1>2 DEF Doomed
<1>4. /\ LockTold(usr[c], p, q, events[c], whoInterlocked[f], whoValue[f])
      /\ TreeTold(p, q, events[c], tree[f], l1[f])
  BY <1>3 DEF IInv, ToldInv, ToldNow, Told
<1>5. \A name : NoEvent(events[c], name) BY <1>1 DEF NoEvent
<1>6. FlagOK(usr[c], p, whoInterlocked[f]) BY <1>1, <1>2, <1>4, <1>5 DEF LockTold
<1>7. p.idList = tree[f] BY <1>1, <1>2, <1>4, <1>5 DEF TreeTold
<1> QED BY <1>6, <1>7 DEF FlagOK, FlagRight

(* ownerFlag of a page agrees with whoInterlocked once the answers and the *)
(* events of stateChecker have arrived, unless the page has missed or      *)
(* misordered news.                                                        *)
THEOREM FlagInTheEnd == Spec => []FlagIsRight
<1>1. IInv => FlagIsRight BY SettledPage DEF FlagIsRight
<1> QED BY <1>1, Inductive, PTL

(* Then idList holds the states of the tree, and every button that         *)
(* changed.jstree has made is a command that the FSM allows.               *)
THEOREM ViewInTheEnd == Spec => []ViewIsRight
<1>1. ASSUME IInv PROVE ViewIsRight
  <2> SUFFICES ASSUME NEW c \in Clients \ disturbed, Settled(c)
               PROVE  /\ pages[c].idList = tree[pages[c].cfg]
                      /\ pages[c].selected # 0 =>
                           pages[c].buttons \subseteq
                             UNION {Rules[s] : s \in tree[pages[c].cfg][pages[c].selected].state}
    BY DEF ViewIsRight
  <2>1. pages[c].idList = tree[pages[c].cfg] BY <1>1, SettledPage
  <2>2. Buttoned(pages[c]) BY <1>1 DEF IInv, ClientsInv, ClientInv, GoodPage
  <2> QED BY <2>1, <2>2 DEF Buttoned
<1> QED BY <1>1, Inductive, PTL

(* After the first POST of updateState has been answered, redrawLock and   *)
(* includeChecker leave nothing enabled on a page without control.         *)
THEOREM NoControlWithoutFlag == Spec => []ControlsFollowFlag
<1>1. ASSUME IInv PROVE ControlsFollowFlag
  <2> SUFFICES ASSUME NEW c \in Clients,
                      ~ \E i \in DOMAIN requests[c] : requests[c][i].kind = "post",
                      pages[c].loaded, pages[c].selected # 0, pages[c].ownerFlag = 0
               PROVE  /\ ~pages[c].controls
                      /\ \A k \in DOMAIN pages[c].boxes : pages[c].boxes[k] # "enabled"
    BY DEF ControlsFollowFlag
  <2>1. FirstPost(pages[c], requests[c]) BY <1>1 DEF IInv, ClientsInv, ClientInv
  <2> QED BY <2>1 DEF FirstPost, Locked
<1> QED BY <1>1, Inductive, PTL

(* The session of a user with one page, and its requests, name the         *)
(* configuration that the page shows.                                      *)
THEOREM OneConfig == Spec => []OnePageOneConfig
<1>1. IInv => OnePageOneConfig BY DEF IInv
<1> QED BY <1>1, Inductive, PTL

=============================================================================

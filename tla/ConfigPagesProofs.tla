------------------------- MODULE ConfigPagesProofs --------------------------
(***************************************************************************)
(* Proofs about ConfigPages, for any number of browsers, documents,        *)
(* schemas, files, operations and requests under way.                      *)
(***************************************************************************)
EXTENDS ConfigPages, FiniteSetTheorems, TLAPS

PageFields == {"at", "name", "value", "schema", "ready", "dirty", "HELPACTIVATED",
               "asking", "submit", "submit2", "submitButtonState"}
RequestFields == {"kind", "via", "doc", "name", "by", "gone"}

(* The requests of a page: finitely many records. *)
Queue(q) == IsFiniteSet(DOMAIN q) /\ \A i \in DOMAIN q : DOMAIN q[i] = RequestFields

(* The shape of the state. *)
Shape ==
    /\ DOMAIN pages = Clients /\ \A c \in Clients : DOMAIN pages[c] = PageFields
    /\ DOMAIN requests = Clients /\ \A c \in Clients : Queue(requests[c])
    /\ DOMAIN out = Names /\ DOMAIN writtenBy = Names

(* ButtonsAgree, and the saved state of the button that help puts back;    *)
(* help hides "Submit" at any time.                                        *)
Agrees(p) ==
    LET state == IF Validates(p) THEN "enabled" ELSE "disabled"
    IN  /\ (p.at = "editor" /\ p.ready /\ ~p.dirty) =>
              /\ p.submit2 = state /\ p.submitButtonState = state
              /\ p.submit = IF p.HELPACTIVATED THEN "hidden" ELSE state
        /\ (p.at = "editor" /\ p.HELPACTIVATED) => p.submit = "hidden"

(* Answers go to the kind of page that asked; what is going to be written  *)
(* into DAQ_CONFIG_DIR is valid.                                           *)
Fits(p, r) ==
    /\ r.kind = "draw" => p.at = "canvas"
    /\ r.kind \in {"schema", "fill"} => p.at = "editor"
    /\ r.kind = "outFile" => r.doc \in Valid[r.by]

PagesInv == \A c \in Clients : Agrees(pages[c])
RequestsInv == \A c \in Clients : \A i \in DOMAIN requests[c] : Fits(pages[c], requests[c][i])

(* As long as nothing crosses a submission its requests, of an editor, are *)
(* the only ones that write, none of them is aborted, and each of the two  *)
(* files has been written or its request is still there.                   *)
IsWrite(r) == r.kind \in {"tempFile", "outFile"}
Pending(kind) == \E c \in Clients : \E i \in DOMAIN requests[c] : requests[c][i].kind = kind
SubmitInv ==
    submitted # Absent =>
        /\ submitted.name \in Names
        /\ \A c \in Clients : \A i \in DOMAIN requests[c] :
             LET r == requests[c][i]
             IN  IsWrite(r) => /\ pages[c].at = "editor" /\ ~r.gone
                               /\ r.doc = submitted.doc
                               /\ r.kind = "outFile" => r.name = submitted.name
        /\ dummyFile = submitted.doc \/ Pending("tempFile")
        /\ out[submitted.name] = submitted.doc \/ Pending("outFile")

(* The names of pages: a page that is to write a file has one. *)
NamesInv == \A c \in Clients : pages[c].name \in Names \cup {NoName}

IInv == Shape /\ PagesInv /\ RequestsInv /\ OutFilesValid /\ NamesInv /\ SubmitInv

-----------------------------------------------------------------------------
(* The requests of a page.                                                 *)

(* There is always a free number. *)
LEMMA FreeNumber ==
    ASSUME NEW q, IsFiniteSet(DOMAIN q)
    PROVE  Free(q) \notin DOMAIN q
<1> DEFINE n == Cardinality(DOMAIN q)
<1>1. n \in Nat BY FS_CardinalityType
<1>2. \E k \in 1..(n + 1) : k \notin DOMAIN q
  <2> SUFFICES ASSUME 1..(n + 1) \subseteq DOMAIN q PROVE FALSE
    OBVIOUS
  <2>1. Cardinality(1..(n + 1)) <= n BY FS_Subset
  <2>2. Cardinality(1..(n + 1)) = n + 1 BY <1>1, FS_Interval
  <2> QED BY <1>1, <2>1, <2>2
<1> QED BY <1>2 DEF Free

(* One more request. *)
LEMMA WithOne ==
    ASSUME NEW q, Queue(q), NEW new, DOMAIN new = RequestFields
    PROVE  /\ Queue(With(q, new))
           /\ DOMAIN With(q, new) = DOMAIN q \cup {Free(q)} /\ Free(q) \notin DOMAIN q
           /\ With(q, new)[Free(q)] = new
           /\ \A i \in DOMAIN q : With(q, new)[i] = q[i]
<1>1. Free(q) \notin DOMAIN q BY FreeNumber DEF Queue
<1>2. /\ DOMAIN With(q, new) = DOMAIN q \cup {Free(q)}
      /\ With(q, new)[Free(q)] = new
      /\ \A i \in DOMAIN q : With(q, new)[i] = q[i]
  BY <1>1 DEF With
<1>3. IsFiniteSet(DOMAIN q \cup {Free(q)}) BY FS_AddElement DEF Queue
<1> QED BY <1>1, <1>2, <1>3 DEF Queue

(* A request that is taken. *)
LEMMA WithoutOne ==
    ASSUME NEW q, Queue(q), NEW i
    PROVE  /\ Queue(Without(q, i)) /\ DOMAIN Without(q, i) = DOMAIN q \ {i}
           /\ \A j \in DOMAIN Without(q, i) : j \in DOMAIN q /\ Without(q, i)[j] = q[j]
<1>1. /\ DOMAIN Without(q, i) = DOMAIN q \ {i}
      /\ \A j \in DOMAIN Without(q, i) : j \in DOMAIN q /\ Without(q, i)[j] = q[j]
  BY DEF Without, Restrict
<1>2. IsFiniteSet(DOMAIN q \ {i}) BY FS_RemoveElement DEF Queue
<1> QED BY <1>1, <1>2 DEF Queue

(* The same request, but for what happens to it on the way. *)
Alike(r, s) == r.kind = s.kind /\ r.doc = s.doc /\ r.name = s.name /\ r.by = s.by

(* A request object that is opened again aborts its request. *)
LEMMA SentOne ==
    ASSUME NEW q, Queue(q), NEW new, DOMAIN new = RequestFields
    PROVE  /\ Queue(Sent(q, new))
           /\ \E n : /\ DOMAIN Sent(q, new) = DOMAIN q \cup {n} /\ n \notin DOMAIN q
                     /\ Sent(q, new)[n] = new
           /\ \A i \in DOMAIN q : /\ Alike(Sent(q, new)[i], q[i])
                                  /\ Sent(q, new)[i].gone =
                                       (q[i].gone \/ (new.via # "own" /\ q[i].via = new.via))
<1> DEFINE p == [i \in DOMAIN q |-> [q[i] EXCEPT
                    !.gone = @ \/ (new.via # "own" /\ q[i].via = new.via)]]
<1>1. DOMAIN p = DOMAIN q /\ IsFiniteSet(DOMAIN p) BY DEF Queue
<1>2. ASSUME NEW i \in DOMAIN q
      PROVE  /\ DOMAIN p[i] = RequestFields /\ Alike(p[i], q[i])
             /\ p[i].gone = (q[i].gone \/ (new.via # "own" /\ q[i].via = new.via))
  <2>1. DOMAIN q[i] = RequestFields BY DEF Queue
  <2> QED BY <2>1 DEF Alike, RequestFields
<1>3. Queue(p) BY <1>1, <1>2 DEF Queue
<1>4. Sent(q, new) = With(p, new) BY DEF Sent
<1> HIDE DEF p
<1>5. /\ Queue(With(p, new))
      /\ DOMAIN With(p, new) = DOMAIN p \cup {Free(p)} /\ Free(p) \notin DOMAIN p
      /\ With(p, new)[Free(p)] = new
      /\ \A i \in DOMAIN p : With(p, new)[i] = p[i]
  BY <1>3, WithOne
<1> QED BY <1>1, <1>2, <1>4, <1>5, Zenon

(* What will be written to a file is valid. *)
AllValid(q) == \A i \in DOMAIN q : q[i].kind = "outFile" => q[i].doc \in Valid[q[i].by]

(* A valid document is sent. *)
LEMMA SentValid ==
    ASSUME NEW q, Queue(q), AllValid(q), NEW r, DOMAIN r = RequestFields,
           r.kind = "outFile" => r.doc \in Valid[r.by]
    PROVE  Queue(Sent(q, r)) /\ AllValid(Sent(q, r))
<1>1. /\ Queue(Sent(q, r))
      /\ \E n : DOMAIN Sent(q, r) = DOMAIN q \cup {n} /\ n \notin DOMAIN q /\ Sent(q, r)[n] = r
      /\ \A i \in DOMAIN q : /\ Alike(Sent(q, r)[i], q[i])
                             /\ Sent(q, r)[i].gone =
                                  (q[i].gone \/ (r.via # "own" /\ q[i].via = r.via))
  BY SentOne
<1> QED BY <1>1 DEF AllValid, Alike

(* A page that is left. *)
LEMMA LeftAll ==
    ASSUME NEW q, Queue(q)
    PROVE  /\ Queue(Left(q))
           /\ \A i \in DOMAIN Left(q) : i \in DOMAIN q /\ Alike(Left(q)[i], q[i])
                                        /\ q[i].kind \notin Gets
<1>1. DOMAIN Left(q) = {j \in DOMAIN q : q[j].kind \notin Gets} BY DEF Left
<1>2. IsFiniteSet(DOMAIN Left(q)) BY <1>1, FS_Subset DEF Queue
<1>3. ASSUME NEW i \in DOMAIN Left(q)
      PROVE  DOMAIN Left(q)[i] = RequestFields /\ Alike(Left(q)[i], q[i])
  <2>1. DOMAIN q[i] = RequestFields BY <1>1 DEF Queue
  <2>2. Left(q)[i] = [q[i] EXCEPT !.gone = TRUE] BY <1>1 DEF Left
  <2> QED BY <2>1, <2>2 DEF Alike, RequestFields
<1> QED BY <1>1, <1>2, <1>3 DEF Queue

(* A page p that is opened, with the requests o: its own, and what is left *)
(* of those of the page before, q.                                         *)
IsOpened(p, o, at, name, q) ==
    /\ DOMAIN p = PageFields /\ Agrees(p) /\ p.at = at /\ p.name = name /\ Queue(o)
    /\ \A i \in DOMAIN o : \/ i \in DOMAIN q /\ Alike(o[i], q[i]) /\ q[i].kind \notin Gets
                           \/ o[i].kind = "draw" /\ at = "canvas"
                           \/ o[i].kind = "schema" /\ at = "editor"

(* The forms and links open pages so. *)
LEMMA OpenedPage ==
    ASSUME NEW at \in {"menu", "canvas", "editor"}, NEW name, NEW q, Queue(q)
    PROVE  IsOpened(Page(at, name), Opening(at, Left(q)), at, name, q)
<1> USE DEF IsOpened
<1>1. /\ DOMAIN Page(at, name) = PageFields /\ ~Page(at, name).ready
      /\ Page(at, name).at = at /\ Page(at, name).name = name /\ ~Page(at, name).HELPACTIVATED
  BY DEF Page, PageFields
<1>2. Agrees(Page(at, name)) BY <1>1 DEF Agrees
<1>3. /\ Queue(Left(q))
      /\ \A i \in DOMAIN Left(q) : i \in DOMAIN q /\ Alike(Left(q)[i], q[i]) /\ q[i].kind \notin Gets
  BY LeftAll
<1>4. ASSUME NEW kind, NEW r, r = Request(kind, "own", Absent, NoName, Absent)
      PROVE  r.kind = kind /\ DOMAIN r = RequestFields
  BY <1>4 DEF Request, RequestFields
<1>5. CASE at = "menu"
  BY <1>1, <1>2, <1>3, <1>5 DEF Opening
<1>6. ASSUME NEW r, DOMAIN r = RequestFields
      PROVE  /\ Queue(With(Left(q), r))
             /\ \A i \in DOMAIN With(Left(q), r) :
                  \/ i \in DOMAIN q /\ Alike(With(Left(q), r)[i], q[i]) /\ q[i].kind \notin Gets
                  \/ With(Left(q), r)[i] = r
  <2>1. /\ Queue(With(Left(q), r))
        /\ DOMAIN With(Left(q), r) = DOMAIN Left(q) \cup {Free(Left(q))}
        /\ With(Left(q), r)[Free(Left(q))] = r
        /\ \A i \in DOMAIN Left(q) : With(Left(q), r)[i] = Left(q)[i]
    BY <1>3, <1>6, WithOne
  <2> QED BY <1>3, <2>1, Zenon
<1>7. CASE at = "canvas"
  <2>1. PICK r : r = Request("draw", "own", Absent, NoName, Absent) OBVIOUS
  <2>2. Opening(at, Left(q)) = With(Left(q), r) BY <1>7, <2>1 DEF Opening
  <2> QED BY <1>1, <1>2, <1>4, <1>6, <1>7, <2>1, <2>2
<1>8. CASE at = "editor"
  <2>1. PICK r : r = Request("schema", "own", Absent, NoName, Absent) OBVIOUS
  <2>2. Opening(at, Left(q)) = With(Left(q), r) BY <1>8, <2>1 DEF Opening
  <2> QED BY <1>1, <1>2, <1>4, <1>6, <1>8, <2>1, <2>2
<1> QED BY <1>5, <1>7, <1>8

-----------------------------------------------------------------------------
(* Steps of one browser.                                                   *)

(* Only the page and the requests of c change, to p and q. *)
Changes(c, p, q) ==
    /\ DOMAIN pages' = Clients /\ DOMAIN requests' = Clients
    /\ pages'[c] = p /\ requests'[c] = q
    /\ \A d \in Clients \ {c} : pages'[d] = pages[d] /\ requests'[d] = requests[d]

(* What pages and requests alone decide. *)
LocalInv == Shape /\ PagesInv /\ RequestsInv /\ NamesInv

(* The invariants of pages and requests are those of each browser. *)
LEMMA LocalStep ==
    ASSUME LocalInv, NEW c \in Clients, NEW p, NEW q, Changes(c, p, q),
           DOMAIN p = PageFields, Queue(q), Agrees(p), p.name \in Names \cup {NoName},
           \A i \in DOMAIN q : Fits(p, q[i]),
           DOMAIN out' = Names, DOMAIN writtenBy' = Names
    PROVE  LocalInv'
<1>1. \A d \in Clients : d = c \/ (pages'[d] = pages[d] /\ requests'[d] = requests[d])
  BY DEF Changes
<1>2. DOMAIN pages' = Clients /\ DOMAIN requests' = Clients /\ pages'[c] = p /\ requests'[c] = q
  BY DEF Changes
<1>3. Shape'
  <2>1. \A d \in Clients : DOMAIN pages'[d] = PageFields /\ Queue(requests'[d])
    BY <1>1, <1>2 DEF LocalInv, Shape
  <2> QED BY <1>2, <2>1 DEF Shape, Queue
<1>4. PagesInv'
  <2>1. \A d \in Clients : Agrees(pages'[d]) BY <1>1, <1>2 DEF LocalInv, PagesInv
  <2> QED BY <2>1 DEF PagesInv, Agrees, Validates
<1>5. RequestsInv'
  <2>1. \A d \in Clients : \A i \in DOMAIN requests'[d] : Fits(pages'[d], requests'[d][i])
    BY <1>1, <1>2 DEF LocalInv, RequestsInv
  <2> QED BY <2>1 DEF RequestsInv, Fits
<1>6. NamesInv' BY <1>1, <1>2 DEF LocalInv, NamesInv
<1> QED BY <1>3, <1>4, <1>5, <1>6 DEF LocalInv

(* The page of c writes what it wrote before. *)
SameWrites(c, p, q) ==
    /\ \A i \in DOMAIN q : IsWrite(q[i]) =>
         /\ p.at = pages[c].at
         /\ \E j \in DOMAIN requests[c] :
              Alike(q[i], requests[c][j]) /\ q[i].gone = requests[c][j].gone
    /\ \A j \in DOMAIN requests[c] : IsWrite(requests[c][j]) =>
         \E i \in DOMAIN q : q[i].kind = requests[c][j].kind

(* Such a step does not touch a submission. *)
LEMMA SubmissionKept ==
    ASSUME Shape, SubmitInv, NEW c \in Clients, NEW p, NEW q, Changes(c, p, q),
           UNCHANGED <<dummyFile, out, submitted>>,
           submitted # Absent => SameWrites(c, p, q)
    PROVE  SubmitInv'
<1> SUFFICES ASSUME submitted # Absent PROVE SubmitInv'
  BY DEF SubmitInv
<1>1. \A d \in Clients : d = c \/ (pages'[d] = pages[d] /\ requests'[d] = requests[d])
  BY DEF Changes
<1>2. pages'[c] = p /\ requests'[c] = q /\ submitted' = submitted
  BY DEF Changes
<1>3. ASSUME NEW d \in Clients, NEW i \in DOMAIN requests'[d], IsWrite(requests'[d][i])
      PROVE  /\ pages'[d].at = "editor" /\ ~requests'[d][i].gone
             /\ requests'[d][i].doc = submitted.doc
             /\ requests'[d][i].kind = "outFile" => requests'[d][i].name = submitted.name
  <2>1. CASE d # c
    BY <1>1, <1>3, <2>1 DEF SubmitInv
  <2>2. CASE d = c
    <3>1. p.at = pages[c].at BY <1>2, <1>3, <2>2 DEF SameWrites
    <3>2. PICK j \in DOMAIN requests[c] :
            Alike(q[i], requests[c][j]) /\ q[i].gone = requests[c][j].gone
      BY <1>2, <1>3, <2>2 DEF SameWrites
    <3>3. IsWrite(requests[c][j]) BY <1>2, <1>3, <2>2, <3>2 DEF IsWrite, Alike
    <3> QED BY <1>2, <2>2, <3>1, <3>2, <3>3 DEF SubmitInv, Alike
  <2> QED BY <2>1, <2>2
<1>4. ASSUME NEW kind \in {"tempFile", "outFile"}, Pending(kind) PROVE Pending(kind)'
  <2>1. PICK d \in Clients : \E j \in DOMAIN requests[d] : requests[d][j].kind = kind
    BY <1>4 DEF Pending
  <2>2. PICK j \in DOMAIN requests[d] : requests[d][j].kind = kind BY <2>1
  <2>3. CASE d # c BY <1>1, <2>2, <2>3 DEF Pending
  <2>4. CASE d = c
    <3>1. \E i \in DOMAIN q : q[i].kind = kind
      BY <1>4, <2>2, <2>4 DEF SameWrites, IsWrite
    <3> QED BY <1>2, <3>1 DEF Pending
  <2> QED BY <2>3, <2>4
<1> QED BY <1>2, <1>3, <1>4 DEF SubmitInv, IsWrite

(* A request that writes is there unchanged; another is too, may have got  *)
(* its answer, or is new and does not write.                               *)
Stays(c, p, q) ==
    \A i \in DOMAIN q :
        \/ /\ i \in DOMAIN requests[c] /\ q[i].kind = requests[c][i].kind
           /\ q[i].kind \in Gets \/ q[i] = requests[c][i]
        \/ /\ q[i].kind = "selectSchema" \/ (q[i].kind = "fill" /\ p.at = "editor")
           /\ i \in DOMAIN requests[c] => ~IsWrite(requests[c][i])

(* The steps of a page that stays, and sends nothing that writes. *)
LEMMA StayStep ==
    ASSUME IInv, NEW c \in Clients, NEW p, NEW q, Changes(c, p, q), Stays(c, p, q),
           UNCHANGED <<out, writtenBy>>,
           DOMAIN p = PageFields, Agrees(p), p.at = pages[c].at, p.name = pages[c].name,
           Queue(q)
    PROVE  /\ LocalInv' /\ OutFilesValid'
           /\ /\ UNCHANGED <<dummyFile, submitted>>
              /\ submitted # Absent =>
                   \A i \in DOMAIN requests[c] : IsWrite(requests[c][i]) => i \in DOMAIN q
              => SubmitInv'
<1>1. \A i \in DOMAIN q : Fits(p, q[i])
  <2> SUFFICES ASSUME NEW i \in DOMAIN q PROVE Fits(p, q[i])
    OBVIOUS
  <2>1. i \in DOMAIN requests[c] => Fits(pages[c], requests[c][i])
    BY DEF IInv, RequestsInv
  <2>2. p.at = pages[c].at OBVIOUS
  <2> QED BY <2>1, <2>2 DEF Fits, Stays, Gets
<1>2. p.name \in Names \cup {NoName} BY DEF IInv, NamesInv
<1>3. DOMAIN out' = Names /\ DOMAIN writtenBy' = Names BY DEF IInv, Shape
<1>4. LocalInv' BY <1>1, <1>2, <1>3, LocalStep DEF IInv, LocalInv
<1>5. OutFilesValid' BY DEF IInv, OutFilesValid
<1>6. ASSUME UNCHANGED <<dummyFile, submitted>>,
             submitted # Absent =>
               \A i \in DOMAIN requests[c] : IsWrite(requests[c][i]) => i \in DOMAIN q
      PROVE  SubmitInv'
  <2>1. submitted # Absent => SameWrites(c, p, q)
    BY <1>6 DEF SameWrites, Stays, IsWrite, Alike, Gets
  <2> QED BY <1>6, <2>1, SubmissionKept DEF IInv
<1> QED BY <1>4, <1>5, <1>6

(* Whatever is put in place of a page or its requests. *)
LEMMA OneBrowser ==
    ASSUME Shape, NEW c \in Clients, NEW p, NEW q,
           pages' = [pages EXCEPT ![c] = p], requests' = [requests EXCEPT ![c] = q]
    PROVE  Changes(c, p, q)
BY DEF Changes, Shape

(* What the invariant speaks of may stay as it is. *)
LEMMA StutterStep ==
    ASSUME IInv, UNCHANGED <<pages, files, requests, history>>
    PROVE  IInv'
<1>1. UNCHANGED <<pages, dummyFile, out, requests, writtenBy, submitted>> BY DEF files, history
<1>2. Shape' /\ NamesInv' BY <1>1 DEF IInv, Shape, Queue, NamesInv
<1>3. PagesInv' BY <1>1 DEF IInv, PagesInv, Agrees, Validates
<1>4. RequestsInv' BY <1>1 DEF IInv, RequestsInv, Fits
<1>5. OutFilesValid' BY <1>1 DEF IInv, OutFilesValid
<1>6. SubmitInv' BY <1>1 DEF IInv, SubmitInv, IsWrite, Pending
<1> QED BY <1>2, <1>3, <1>4, <1>5, <1>6 DEF IInv

(* The requests of a page that is left either lose its writes, or the      *)
(* submission is over.                                                     *)
LEMMA LeaveStep ==
    ASSUME IInv, NEW c \in Clients, NEW at \in {"menu", "canvas", "editor"},
           NEW name \in Names \cup {NoName}, NEW q,
           pages' = [pages EXCEPT ![c] = Page(at, name)],
           requests' = [requests EXCEPT ![c] = Opening(at, Left(q))],
           Queue(q), AllValid(q),
           UNCHANGED <<out, writtenBy>>,
           \/ submitted' = Absent
           \/ /\ UNCHANGED <<dummyFile, submitted>> /\ q = requests[c]
              /\ pages[c].at # "editor" \/ q = NoRequests
    PROVE  IInv'
<1> DEFINE p == Page(at, name)
           o == Opening(at, Left(q))
<1>0. Changes(c, p, o) BY OneBrowser DEF IInv
<1>1. /\ DOMAIN p = PageFields /\ Agrees(p) /\ p.at = at /\ p.name = name /\ Queue(o)
      /\ \A i \in DOMAIN o : \/ i \in DOMAIN q /\ Alike(o[i], q[i]) /\ q[i].kind \notin Gets
                             \/ o[i].kind = "draw" /\ at = "canvas"
                             \/ o[i].kind = "schema" /\ at = "editor"
  <2>1. IsOpened(p, o, at, name, q) BY OpenedPage
  <2> HIDE DEF p, o
  <2> QED BY <2>1 DEF IsOpened
<1> HIDE DEF p, o
<1>2. \A i \in DOMAIN o : Fits(p, o[i])
  BY <1>1 DEF Fits, Alike, Gets, AllValid
<1>3. DOMAIN out' = Names /\ DOMAIN writtenBy' = Names BY DEF IInv, Shape
<1>4. LocalInv' BY <1>0, <1>1, <1>2, <1>3, LocalStep DEF IInv, LocalInv
<1>5. OutFilesValid' BY DEF IInv, OutFilesValid
<1>6. SubmitInv'
  <2>1. CASE submitted' = Absent BY <2>1 DEF SubmitInv
  <2>2. CASE UNCHANGED <<dummyFile, submitted>> /\ q = requests[c]
             /\ (pages[c].at # "editor" \/ q = NoRequests)
    <3>1. ASSUME submitted # Absent, NEW i \in DOMAIN q PROVE ~IsWrite(q[i])
      BY <2>2, <3>1 DEF IInv, SubmitInv, NoRequests
    <3>2. submitted # Absent => SameWrites(c, p, o)
      BY <1>1, <2>2, <3>1 DEF SameWrites, IsWrite, Alike
    <3> QED BY <1>0, <2>2, <3>2, SubmissionKept DEF IInv
  <2> QED BY <2>1, <2>2
<1> QED BY <1>4, <1>5, <1>6 DEF IInv, LocalInv

(* The forms of the menu, and the links between the pages. *)
LEMMA LinkStep ==
    ASSUME IInv, NEW c \in Clients,
           \/ indexNew(c) \/ (\E name \in Names : indexEdit(c, name)) \/ editPrevFile(c)
           \/ editJSON(c) \/ menuButton(c)
    PROVE  IInv'
<1>0. Queue(requests[c]) /\ AllValid(requests[c]) /\ pages[c].name \in Names \cup {NoName}
  BY DEF IInv, Shape, NamesInv, RequestsInv, Fits, AllValid
<1>1. CASE indexNew(c)
  BY <1>0, <1>1, LeaveStep DEF indexNew, Crosses, Goes
<1>2. ASSUME NEW name \in Names, indexEdit(c, name) PROVE IInv'
  BY <1>0, <1>2, LeaveStep DEF indexEdit, Crosses, Goes
<1>3. CASE editPrevFile(c)
  <2>1. pages[c].at = "menu" BY <1>3 DEF editPrevFile, Operation
  <2> QED BY <1>0, <1>3, <2>1, LeaveStep DEF editPrevFile, files, Goes
<1>4. CASE editJSON(c)
  <2>1. pages[c].at = "canvas" BY <1>4 DEF editJSON, Operation
  <2> QED BY <1>0, <1>4, <2>1, LeaveStep DEF editJSON, files, Goes
<1>5. CASE menuButton(c)
  BY <1>0, <1>5, LeaveStep DEF menuButton, files, Goes
<1> QED BY <1>1, <1>2, <1>3, <1>4, <1>5

(* A step that only redraws a page. *)
LEMMA RedrawStep ==
    ASSUME IInv, NEW c \in Clients, NEW p, pages' = [pages EXCEPT ![c] = p],
           UNCHANGED <<files, requests, history>>,
           DOMAIN p = PageFields, Agrees(p), p.at = pages[c].at, p.name = pages[c].name
    PROVE  IInv'
<1>1. Changes(c, p, requests[c]) /\ Queue(requests[c])
  BY DEF Changes, IInv, Shape
<1>2. Stays(c, p, requests[c]) BY DEF Stays
<1>3. UNCHANGED <<out, writtenBy, dummyFile, submitted>> BY DEF files, history
<1> QED BY <1>1, <1>2, <1>3, StayStep DEF IInv, LocalInv

(* The handlers that only redraw: help, an edit, its change event, and     *)
(* the dialog for a name that is closed.                                   *)
LEMMA PageStep ==
    ASSUME IInv, NEW c \in Clients,
           \/ helpButton(c) \/ (\E doc \in Docs : edit(c, doc)) \/ changeEvent(c) \/ closeName(c)
    PROVE  IInv'
<1>0. DOMAIN pages[c] = PageFields /\ Agrees(pages[c]) BY DEF IInv, Shape, PagesInv
<1>1. CASE helpButton(c)
  <2>1. CASE pages[c].at = "editor"
    <3>1. pages' = [pages EXCEPT ![c] = help(pages[c])] BY <1>1, <2>1 DEF helpButton
    <3>2. /\ DOMAIN help(pages[c]) = PageFields
          /\ help(pages[c]).at = pages[c].at /\ help(pages[c]).name = pages[c].name
      BY <1>0 DEF help, PageFields
    <3>3. Agrees(help(pages[c]))
      BY <1>0 DEF Agrees, help, Validates, PageFields
    <3> QED BY <1>1, <3>1, <3>2, <3>3, RedrawStep DEF helpButton, history
  <2>2. CASE pages[c].at # "editor"
    <3>1. pages' = [pages EXCEPT ![c] = menuHelp(pages[c])] BY <1>1, <2>2 DEF helpButton
    <3>2. /\ DOMAIN menuHelp(pages[c]) = PageFields
          /\ menuHelp(pages[c]).at = pages[c].at /\ menuHelp(pages[c]).name = pages[c].name
      BY <1>0 DEF menuHelp, PageFields
    <3>3. Agrees(menuHelp(pages[c])) BY <2>2, <3>2 DEF Agrees
    <3> QED BY <1>1, <3>1, <3>2, <3>3, RedrawStep DEF helpButton, history
  <2> QED BY <2>1, <2>2
<1>2. ASSUME NEW doc \in Docs, edit(c, doc) PROVE IInv'
  <2> DEFINE p == [pages[c] EXCEPT !.value = doc, !.dirty = TRUE]
  <2>1. pages' = [pages EXCEPT ![c] = p] BY <1>2 DEF edit
  <2>2. DOMAIN p = PageFields /\ p.at = pages[c].at /\ p.name = pages[c].name /\ p.dirty
        /\ p.HELPACTIVATED = pages[c].HELPACTIVATED /\ p.submit = pages[c].submit
    BY <1>0 DEF PageFields
  <2> HIDE DEF p
  <2>3. Agrees(p) BY <1>0, <2>2 DEF Agrees
  <2> QED BY <1>2, <2>1, <2>2, <2>3, RedrawStep DEF edit, history
<1>3. CASE changeEvent(c)
  <2>1. pages' = [pages EXCEPT ![c] = change(pages[c])] BY <1>3 DEF changeEvent
  <2>2. /\ DOMAIN change(pages[c]) = PageFields
        /\ change(pages[c]).at = pages[c].at /\ change(pages[c]).name = pages[c].name
    BY <1>0 DEF change, PageFields
  <2>3. Agrees(change(pages[c]))
    BY <1>0 DEF Agrees, change, Validates, PageFields
  <2> QED BY <1>3, <2>1, <2>2, <2>3, RedrawStep DEF changeEvent, history
<1>4. CASE closeName(c)
  <2> DEFINE p == [pages[c] EXCEPT !.asking = FALSE]
  <2>1. pages' = [pages EXCEPT ![c] = p] BY <1>4 DEF closeName
  <2>2. DOMAIN p = PageFields /\ p.at = pages[c].at /\ p.name = pages[c].name
    BY <1>0 DEF PageFields
  <2>3. Agrees(p) BY <1>0 DEF Agrees, Validates, PageFields
  <2> QED BY <1>4, <2>1, <2>2, <2>3, RedrawStep DEF closeName, history
<1> QED BY <1>1, <1>2, <1>3, <1>4

(* The menu and the canvas send documents. *)
LEMMA SendStep ==
    ASSUME IInv, NEW c \in Clients,
           \/ \E s \in Schemas : submitSchema(c, s)
           \/ \E doc \in Docs : canvasSave(c, doc)
    PROVE  IInv'
<1>0. DOMAIN pages[c] = PageFields /\ Agrees(pages[c]) /\ Queue(requests[c])
  BY DEF IInv, Shape, PagesInv
<1>1. ASSUME NEW s \in Schemas, submitSchema(c, s) PROVE IInv'
  <2>1. PICK r : r = Request("selectSchema", "own", s, NoName, Absent) OBVIOUS
  <2>2. DOMAIN r = RequestFields /\ r.kind = "selectSchema" BY <2>1 DEF Request, RequestFields
  <2> DEFINE q == With(requests[c], r)
  <2>3. /\ Queue(q) /\ DOMAIN q = DOMAIN requests[c] \cup {Free(requests[c])}
        /\ Free(requests[c]) \notin DOMAIN requests[c] /\ q[Free(requests[c])] = r
        /\ \A i \in DOMAIN requests[c] : q[i] = requests[c][i]
    BY <1>0, <2>2, WithOne
  <2>4. requests' = [requests EXCEPT ![c] = q] /\ UNCHANGED <<pages, files, history>>
    BY <1>1, <2>1 DEF submitSchema
  <2> HIDE DEF q
  <2>5. Changes(c, pages[c], q) BY <2>4 DEF Changes, IInv, Shape
  <2>6. Stays(c, pages[c], q)
    BY <2>2, <2>3 DEF Stays
  <2>7. UNCHANGED <<out, writtenBy, dummyFile, submitted>> BY <2>4 DEF files, history
  <2> QED BY <1>0, <2>3, <2>5, <2>6, <2>7, StayStep DEF IInv, LocalInv
<1>2. ASSUME NEW doc \in Docs, canvasSave(c, doc) PROVE IInv'
  <2>1. PICK r : r = Request("tempFile", "own", doc, NoName, Absent) OBVIOUS
  <2>2. DOMAIN r = RequestFields /\ r.kind = "tempFile" BY <2>1 DEF Request, RequestFields
  <2> DEFINE q == With(requests[c], r)
             p == [pages[c] EXCEPT !.value = doc]
  <2>3. /\ Queue(q) /\ \A i \in DOMAIN q : q[i] = r \/ (i \in DOMAIN requests[c] /\ q[i] = requests[c][i])
    <3>1. /\ Queue(q) /\ DOMAIN q = DOMAIN requests[c] \cup {Free(requests[c])}
          /\ q[Free(requests[c])] = r
          /\ \A i \in DOMAIN requests[c] : q[i] = requests[c][i]
      BY <1>0, <2>2, WithOne
    <3> QED BY <3>1, Zenon
  <2>4. requests' = [requests EXCEPT ![c] = q] /\ pages' = [pages EXCEPT ![c] = p]
    BY <1>2, <2>1 DEF canvasSave
  <2>5. /\ pages[c].at = "canvas" /\ UNCHANGED <<out, writtenBy>> /\ submitted' = Absent
    BY <1>2 DEF canvasSave, Operation, Crosses, files
  <2>6. DOMAIN p = PageFields /\ p.at = "canvas" /\ p.name = pages[c].name
    BY <1>0, <2>5 DEF PageFields
  <2> HIDE DEF q, p
  <2>7. Changes(c, p, q) BY <2>4, OneBrowser DEF IInv
  <2>8. Agrees(p) BY <2>6 DEF Agrees
  <2>9. \A i \in DOMAIN q : Fits(p, q[i])
    BY <2>2, <2>3, <2>5, <2>6 DEF Fits, IInv, RequestsInv
  <2>10. p.name \in Names \cup {NoName} /\ DOMAIN out' = Names /\ DOMAIN writtenBy' = Names
    BY <2>5, <2>6 DEF IInv, NamesInv, Shape
  <2>11. LocalInv' BY <2>3, <2>6, <2>7, <2>8, <2>9, <2>10, LocalStep DEF IInv, LocalInv
  <2>12. OutFilesValid' BY <2>5 DEF IInv, OutFilesValid
  <2>13. SubmitInv' BY <2>5 DEF SubmitInv
  <2> QED BY <2>11, <2>12, <2>13 DEF IInv, LocalInv
<1> QED BY <1>1, <1>2

(* The two requests of submit_helper. *)
TempRequest(p) == Request("tempFile", "xhr", p.value, NoName, Absent)
OutRequest(p) == Request("outFile", "xhr2", p.value, p.name, p.schema)

(* What submit_helper sends: the second request does not abort the first. *)
LEMMA SubmitRequests ==
    ASSUME NEW p, NEW old, Queue(old), NEW q,
           q = IF Validates(p) /\ p.name # NoName
               THEN Sent(Sent(old, TempRequest(p)), OutRequest(p)) ELSE Sent(old, TempRequest(p))
    PROVE  /\ Queue(q)
           /\ \A i \in DOMAIN q :
                \/ i \in DOMAIN old /\ Alike(q[i], old[i])
                \/ Alike(q[i], TempRequest(p)) /\ ~q[i].gone
                \/ q[i] = OutRequest(p) /\ Validates(p) /\ p.name # NoName
           /\ \E i \in DOMAIN q : q[i].kind = "tempFile"
           /\ Validates(p) /\ p.name # NoName => \E i \in DOMAIN q : q[i].kind = "outFile"
<1>1. PICK t : t = TempRequest(p) OBVIOUS
<1>2. PICK o : o = OutRequest(p) OBVIOUS
<1>3. /\ DOMAIN t = RequestFields /\ t.kind = "tempFile" /\ t.via = "xhr" /\ ~t.gone
      /\ DOMAIN o = RequestFields /\ o.kind = "outFile" /\ o.via = "xhr2"
  BY <1>1, <1>2 DEF TempRequest, OutRequest, Request, RequestFields
<1>4. PICK q1 : q1 = Sent(old, t) OBVIOUS
<1>5. PICK n : /\ Queue(q1) /\ DOMAIN q1 = DOMAIN old \cup {n} /\ n \notin DOMAIN old /\ q1[n] = t
               /\ \A i \in DOMAIN old : Alike(q1[i], old[i])
  BY <1>3, <1>4, SentOne
<1>6. CASE ~(Validates(p) /\ p.name # NoName)
  <2>1. q = q1 BY <1>1, <1>4, <1>6
  <2> QED BY <1>1, <1>3, <1>5, <1>6, <2>1 DEF Alike
<1>7. CASE Validates(p) /\ p.name # NoName
  <2>1. q = Sent(q1, o) BY <1>1, <1>2, <1>4, <1>7
  <2>0. /\ Queue(q)
        /\ \E m : DOMAIN q = DOMAIN q1 \cup {m} /\ m \notin DOMAIN q1 /\ q[m] = o
        /\ \A i \in DOMAIN q1 : /\ Alike(q[i], q1[i])
                               /\ q[i].gone = (q1[i].gone \/ (o.via # "own" /\ q1[i].via = o.via))
    <3>1. Queue(q1) /\ DOMAIN o = RequestFields BY <1>3, <1>5
    <3> HIDE <1>3, <1>5
    <3>2. /\ Queue(Sent(q1, o))
          /\ \E k : /\ DOMAIN Sent(q1, o) = DOMAIN q1 \cup {k} /\ k \notin DOMAIN q1
                    /\ Sent(q1, o)[k] = o
          /\ \A i \in DOMAIN q1 : /\ Alike(Sent(q1, o)[i], q1[i])
                                 /\ Sent(q1, o)[i].gone =
                                      (q1[i].gone \/ (o.via # "own" /\ q1[i].via = o.via))
      BY <3>1, SentOne
    <3> QED BY <2>1, <3>2, Zenon
  <2>2. PICK m : /\ Queue(q) /\ DOMAIN q = DOMAIN q1 \cup {m} /\ m \notin DOMAIN q1 /\ q[m] = o
                 /\ \A i \in DOMAIN q1 : /\ Alike(q[i], q1[i])
                                        /\ q[i].gone = (q1[i].gone \/ (o.via # "own" /\ q1[i].via = o.via))
    BY <2>0, Zenon
  <2>3. ~q[n].gone /\ Alike(q[n], t) /\ q[n].kind = "tempFile" BY <1>3, <1>5, <2>2 DEF Alike
  <2>4. \A i \in DOMAIN old : Alike(q[i], old[i]) BY <1>5, <2>2 DEF Alike
  <2> QED BY <1>1, <1>2, <1>3, <1>5, <1>7, <2>2, <2>3, <2>4
<1> QED BY <1>6, <1>7

(* "Submit": the submission is followed if it is alone. *)
LEMMA SubmitStep ==
    ASSUME IInv, NEW c \in Clients, submit(c)
    PROVE  IInv'
<1> DEFINE old == pages[c]
           p == [pages[c] EXCEPT !.asking = Validates(pages[c]) /\ pages[c].name = NoName]
           q == IF Validates(old) /\ old.name # NoName
                THEN Sent(Sent(requests[c], TempRequest(old)), OutRequest(old))
                ELSE Sent(requests[c], TempRequest(old))
<1>0. DOMAIN pages[c] = PageFields /\ Agrees(pages[c]) /\ Queue(requests[c])
      /\ pages[c].at = "editor" /\ pages[c].name \in Names \cup {NoName}
  BY DEF IInv, Shape, PagesInv, NamesInv, submit, Operation
<1>1. requests' = [requests EXCEPT ![c] = q] /\ pages' = [pages EXCEPT ![c] = p]
  BY DEF submit, submit_helper, TempRequest, OutRequest
<1>2. DOMAIN p = PageFields /\ p.at = "editor" /\ p.name = pages[c].name /\ Agrees(p)
  BY <1>0 DEF Agrees, Validates, PageFields
<1>3. /\ Queue(q)
      /\ \A i \in DOMAIN q :
           \/ i \in DOMAIN requests[c] /\ Alike(q[i], requests[c][i])
           \/ Alike(q[i], TempRequest(old)) /\ ~q[i].gone
           \/ q[i] = OutRequest(old) /\ Validates(old) /\ old.name # NoName
      /\ \E i \in DOMAIN q : q[i].kind = "tempFile"
      /\ Validates(old) /\ old.name # NoName => \E i \in DOMAIN q : q[i].kind = "outFile"
  BY <1>0, SubmitRequests
<1>4. UNCHANGED <<dummyFile, out, writtenBy>> BY DEF submit, files
<1>5. /\ TempRequest(old).kind = "tempFile" /\ TempRequest(old).doc = old.value
      /\ OutRequest(old).kind = "outFile" /\ OutRequest(old).doc = old.value /\ ~OutRequest(old).gone
      /\ OutRequest(old).name = old.name /\ OutRequest(old).by = old.schema
  BY DEF TempRequest, OutRequest, Request
<1> HIDE DEF p, q
<1>6. Changes(c, p, q) BY <1>1, OneBrowser DEF IInv
<1>7. \A i \in DOMAIN q : Fits(p, q[i])
  <2> SUFFICES ASSUME NEW i \in DOMAIN q PROVE Fits(p, q[i])
    OBVIOUS
  <2>1. i \in DOMAIN requests[c] => Fits(old, requests[c][i]) BY DEF IInv, RequestsInv
  <2> QED BY <1>0, <1>2, <1>3, <1>5, <2>1 DEF Fits, Alike, Validates
<1>8. LocalInv'
  <2>1. DOMAIN out' = Names /\ DOMAIN writtenBy' = Names BY <1>4 DEF IInv, Shape
  <2> QED BY <1>0, <1>2, <1>3, <1>6, <1>7, <2>1, LocalStep DEF IInv, LocalInv
<1>9. OutFilesValid' BY <1>4 DEF IInv, OutFilesValid
<1>10. SubmitInv'
  <2> SUFFICES ASSUME submitted' # Absent PROVE SubmitInv'
    BY DEF SubmitInv
  <2>1. /\ \A d \in Clients : DOMAIN requests[d] = {}
        /\ Validates(old) /\ old.name # NoName
        /\ submitted' = [name |-> old.name, doc |-> old.value]
    BY DEF submit, NoRequests
  <2>2. submitted'.name = old.name /\ submitted'.doc = old.value /\ old.name \in Names
    BY <1>0, <2>1
  <2>3. ASSUME NEW d \in Clients, NEW i \in DOMAIN requests'[d]
        PROVE  /\ pages'[d].at = "editor" /\ ~requests'[d][i].gone
               /\ requests'[d][i].doc = submitted'.doc
               /\ requests'[d][i].kind = "outFile" => requests'[d][i].name = submitted'.name
    <3>1. d = c /\ requests'[d] = q /\ pages'[d] = p BY <1>6, <2>1 DEF Changes
    <3>2. i \notin DOMAIN requests[c] BY <2>1
    <3> QED BY <1>2, <1>3, <1>5, <2>2, <3>1, <3>2 DEF Alike
  <2>4. Pending("tempFile")' /\ Pending("outFile")'
    BY <1>3, <1>6, <2>1 DEF Pending, Changes
  <2> QED BY <2>2, <2>3, <2>4 DEF SubmitInv
<1> QED BY <1>8, <1>9, <1>10 DEF IInv, LocalInv

(* A file that is written under a new name, and "Whiteboard". *)
LEMMA LeaveEditorStep ==
    ASSUME IInv, NEW c \in Clients,
           (\E name \in Names : submitNewJSON(c, name)) \/ returnToCanvas(c)
    PROVE  IInv'
<1>0. Queue(requests[c]) /\ AllValid(requests[c]) /\ pages[c].name \in Names \cup {NoName}
  BY DEF IInv, Shape, NamesInv, RequestsInv, Fits, AllValid
<1>2. ASSUME NEW name \in Names, submitNewJSON(c, name) PROVE IInv'
  <2>1. CASE Writes(pages[c])
    <3>1. PICK r : r = [Request("outFile", "xhr", pages[c].value, name, pages[c].schema)
                           EXCEPT !.gone = TRUE]
      OBVIOUS
    <3>2. DOMAIN r = RequestFields /\ r.doc \in Valid[r.by]
      BY <2>1, <3>1 DEF Request, RequestFields, Writes, Validates
    <3>3. PICK q : q = Sent(requests[c], r) OBVIOUS
    <3>4. /\ pages' = [pages EXCEPT ![c] = Page("editor", name)]
          /\ requests' = [requests EXCEPT ![c] = Opening("editor", Left(q))]
          /\ submitted' = Absent /\ UNCHANGED <<out, writtenBy>>
      BY <1>2, <2>1, <3>1, <3>3 DEF submitNewJSON, Goes, Crosses, files
    <3>5. Queue(q) /\ AllValid(q) BY <1>0, <3>2, <3>3, SentValid
    <3> QED BY <3>4, <3>5, LeaveStep
  <2>2. CASE ~Writes(pages[c])
    BY <1>2, <2>2, StutterStep DEF submitNewJSON, history
  <2> QED BY <2>1, <2>2
<1>3. CASE returnToCanvas(c)
  <2>1. PICK r : r = Request("tempFile", "xhr", pages[c].value, NoName, Absent) OBVIOUS
  <2>2. DOMAIN r = RequestFields /\ r.kind = "tempFile" BY <2>1 DEF Request, RequestFields
  <2>3. PICK q : q = IF pages[c].ready THEN Sent(requests[c], r) ELSE requests[c] OBVIOUS
  <2>4. /\ pages' = [pages EXCEPT ![c] = Page("canvas", pages[c].name)]
        /\ requests' = [requests EXCEPT ![c] = Opening("canvas", Left(q))]
        /\ submitted' = Absent /\ UNCHANGED <<out, writtenBy>>
    BY <1>3, <2>1, <2>3 DEF returnToCanvas, Goes, Crosses, files
  <2>5. Queue(q) /\ AllValid(q) BY <1>0, <2>2, <2>3, SentValid
  <2> QED BY <1>0, <2>4, <2>5, LeaveStep
<1> QED BY <1>2, <1>3

-----------------------------------------------------------------------------
(* Requests are served.                                                    *)

(* A request that does not write is taken; its page may be redrawn. *)
LEMMA TakeStep ==
    ASSUME IInv, NEW c \in Clients, NEW i \in DOMAIN requests[c], Take(c, i),
           submitted # Absent => ~IsWrite(requests[c][i]),
           UNCHANGED <<out, writtenBy, dummyFile, submitted>>,
           NEW p, DOMAIN pages' = Clients, pages'[c] = p,
           \A d \in Clients \ {c} : pages'[d] = pages[d],
           DOMAIN p = PageFields, Agrees(p), p.at = pages[c].at, p.name = pages[c].name
    PROVE  IInv'
<1> DEFINE q == Without(requests[c], i)
<1>1. /\ Queue(q) /\ DOMAIN q = DOMAIN requests[c] \ {i}
      /\ \A j \in DOMAIN q : j \in DOMAIN requests[c] /\ q[j] = requests[c][j]
  <2>1. Queue(requests[c]) BY DEF IInv, Shape
  <2> QED BY <2>1, WithoutOne
<1>2. Changes(c, p, q)
  BY DEF Take, Changes, IInv, Shape
<1> HIDE DEF q
<1>3. Stays(c, p, q) BY <1>1 DEF Stays
<1>4. submitted # Absent => \A j \in DOMAIN requests[c] : IsWrite(requests[c][j]) => j \in DOMAIN q
  BY <1>1
<1> QED BY <1>1, <1>2, <1>3, <1>4, StayStep DEF IInv, LocalInv

(* Answers, the selection of a schema, and requests that do not arrive. *)
LEMMA AnswerStep ==
    ASSUME IInv, NEW c \in Clients, NEW i \in DOMAIN requests[c],
           GetFails(c, i) \/ fill(c, i) \/ draw(c, i) \/ selectSchema(c, i) \/ Lost(c, i)
    PROVE  IInv'
<1>0. /\ DOMAIN pages = Clients /\ DOMAIN pages[c] = PageFields /\ Agrees(pages[c])
      /\ Fits(pages[c], requests[c][i])
  BY DEF IInv, Shape, PagesInv, RequestsInv
<1>1. CASE GetFails(c, i)
  <2>1. ~IsWrite(requests[c][i]) /\ Take(c, i)
        /\ UNCHANGED <<pages, out, writtenBy, dummyFile, submitted>>
    BY <1>1 DEF GetFails, IsWrite, files, history
  <2> QED BY <1>0, <2>1, TakeStep
<1>2. CASE fill(c, i)
  <2> DEFINE p == [pages[c] EXCEPT !.value = requests[c][i].doc, !.dirty = TRUE]
  <2>1. ~IsWrite(requests[c][i]) /\ Take(c, i) /\ pages' = [pages EXCEPT ![c] = p]
        /\ UNCHANGED <<out, writtenBy, dummyFile, submitted>>
    BY <1>2 DEF fill, IsWrite, files, history
  <2>2. DOMAIN p = PageFields /\ p.at = pages[c].at /\ p.name = pages[c].name /\ p.dirty
        /\ p.HELPACTIVATED = pages[c].HELPACTIVATED /\ p.submit = pages[c].submit
    BY <1>0 DEF PageFields
  <2> HIDE DEF p
  <2>3. Agrees(p) BY <1>0, <2>2 DEF Agrees
  <2>4. DOMAIN pages' = Clients /\ pages'[c] = p /\ \A d \in Clients \ {c} : pages'[d] = pages[d]
    BY <1>0, <2>1
  <2> QED BY <2>1, <2>2, <2>3, <2>4, TakeStep
<1>3. CASE draw(c, i)
  <2> DEFINE p == [pages[c] EXCEPT !.value = requests[c][i].doc]
  <2>1. ~IsWrite(requests[c][i]) /\ Take(c, i) /\ pages' = [pages EXCEPT ![c] = p]
        /\ UNCHANGED <<out, writtenBy, dummyFile, submitted>>
    BY <1>3 DEF draw, IsWrite, files, history
  <2>2. DOMAIN p = PageFields /\ p.at = pages[c].at /\ p.name = pages[c].name
    BY <1>0 DEF PageFields
  <2> HIDE DEF p
  <2>3. Agrees(p) BY <1>0, <1>3, <2>2 DEF Agrees, Fits, draw
  <2>4. DOMAIN pages' = Clients /\ pages'[c] = p /\ \A d \in Clients \ {c} : pages'[d] = pages[d]
    BY <1>0, <2>1
  <2> QED BY <2>1, <2>2, <2>3, <2>4, TakeStep
<1>4. CASE selectSchema(c, i)
  <2>1. ~IsWrite(requests[c][i]) /\ Take(c, i)
        /\ UNCHANGED <<pages, out, writtenBy, dummyFile, submitted>>
    BY <1>4 DEF selectSchema, IsWrite, history
  <2> QED BY <1>0, <2>1, TakeStep
<1>5. CASE Lost(c, i)
  <2>1. Take(c, i) /\ UNCHANGED <<pages, out, writtenBy, dummyFile, submitted>>
    BY <1>5 DEF Lost, files, history
  <2>2. submitted # Absent => ~IsWrite(requests[c][i])
    BY <1>5 DEF Lost, IInv, SubmitInv
  <2> QED BY <1>0, <2>1, <2>2, TakeStep
<1> QED BY <1>1, <1>2, <1>3, <1>4, <1>5

(* The schema arrives, and the server reads the working copy. *)
LEMMA ReadStep ==
    ASSUME IInv, NEW c \in Clients, NEW i \in DOMAIN requests[c],
           ready(c, i) \/ dummyFileGet(c, i)
    PROVE  IInv'
<1>0. /\ DOMAIN pages = Clients /\ DOMAIN pages[c] = PageFields /\ Agrees(pages[c])
      /\ Queue(requests[c]) /\ Fits(pages[c], requests[c][i])
  BY DEF IInv, Shape, PagesInv, RequestsInv
<1>1. CASE ready(c, i)
  <2> DEFINE p == [pages[c] EXCEPT !.ready = TRUE, !.dirty = TRUE, !.schema = schema]
  <2>1. PICK r : r = Request("fill", "own", Absent, NoName, Absent) OBVIOUS
  <2>2. DOMAIN r = RequestFields /\ r.kind = "fill" BY <2>1 DEF Request, RequestFields
  <2>3. PICK w : w = Without(requests[c], i) OBVIOUS
  <2>4. /\ Queue(w) /\ DOMAIN w = DOMAIN requests[c] \ {i}
        /\ \A j \in DOMAIN w : j \in DOMAIN requests[c] /\ w[j] = requests[c][j]
    BY <1>0, <2>3, WithoutOne
  <2>5. PICK q : q = With(w, r) OBVIOUS
  <2>6. /\ Queue(q) /\ DOMAIN q = DOMAIN w \cup {Free(w)} /\ Free(w) \notin DOMAIN w
        /\ q[Free(w)] = r /\ \A j \in DOMAIN w : q[j] = w[j]
    BY <2>2, <2>4, <2>5, WithOne
  <2>7. pages' = [pages EXCEPT ![c] = p] /\ requests' = [requests EXCEPT ![c] = q]
    BY <1>1, <2>1, <2>3, <2>5 DEF ready
  <2>8. requests[c][i].kind = "schema" /\ UNCHANGED <<out, writtenBy, dummyFile, submitted>>
    BY <1>1 DEF ready, files, history
  <2>9. DOMAIN p = PageFields /\ p.at = pages[c].at /\ p.name = pages[c].name /\ p.dirty
        /\ p.HELPACTIVATED = pages[c].HELPACTIVATED /\ p.submit = pages[c].submit
    BY <1>0 DEF PageFields
  <2> HIDE DEF p
  <2>10. Agrees(p) BY <1>0, <2>9 DEF Agrees
  <2>11. Changes(c, p, q) BY <2>7, OneBrowser DEF IInv
  <2>12. p.at = "editor" BY <1>0, <2>8, <2>9 DEF Fits
  <2>13. Stays(c, p, q) BY <2>2, <2>4, <2>6, <2>8, <2>12 DEF Stays, IsWrite
  <2>14. \A j \in DOMAIN requests[c] : IsWrite(requests[c][j]) => j \in DOMAIN q
    BY <2>4, <2>6, <2>8 DEF IsWrite
  <2> QED BY <2>6, <2>8, <2>9, <2>10, <2>11, <2>13, <2>14, StayStep DEF IInv, LocalInv
<1>2. CASE dummyFileGet(c, i)
  <2>1. PICK q : q = [requests[c] EXCEPT ![i] = [requests[c][i] EXCEPT !.doc = dummyFile]] OBVIOUS
  <2>2. requests' = [requests EXCEPT ![c] = q] /\ UNCHANGED <<pages, files, history>>
    BY <1>2, <2>1 DEF dummyFileGet
  <2>3. /\ DOMAIN q = DOMAIN requests[c] /\ q[i] = [requests[c][i] EXCEPT !.doc = dummyFile]
        /\ \A j \in DOMAIN requests[c] : j # i => q[j] = requests[c][j]
    BY <2>1
  <2>4. DOMAIN requests[c][i] = RequestFields /\ requests[c][i].kind \in Gets
    BY <1>0, <1>2 DEF Queue, dummyFileGet, Gets
  <2>5. DOMAIN q[i] = RequestFields /\ q[i].kind = requests[c][i].kind
    BY <2>3, <2>4 DEF RequestFields
  <2>6. Queue(q) BY <1>0, <2>3, <2>5 DEF Queue
  <2>7. Stays(c, pages[c], q) BY <2>3, <2>4, <2>5 DEF Stays
  <2>8. Changes(c, pages[c], q) BY <2>2 DEF Changes, IInv, Shape
  <2>9. UNCHANGED <<out, writtenBy, dummyFile, submitted>> BY <2>2 DEF files, history
  <2> QED BY <1>0, <2>3, <2>6, <2>7, <2>8, <2>9, StayStep DEF IInv, LocalInv
<1> QED BY <1>1, <1>2

(* A file is written. *)
LEMMA WriteStep ==
    ASSUME IInv, NEW c \in Clients, NEW i \in DOMAIN requests[c],
           tempFile(c, i) \/ outFile(c, i)
    PROVE  IInv'
<1> DEFINE q == Without(requests[c], i)
           r == requests[c][i]
<1>0. /\ DOMAIN pages[c] = PageFields /\ Agrees(pages[c]) /\ pages[c].name \in Names \cup {NoName}
      /\ Queue(requests[c]) /\ Fits(pages[c], r)
      /\ DOMAIN out = Names /\ DOMAIN writtenBy = Names
  BY DEF IInv, Shape, PagesInv, RequestsInv, NamesInv
<1>1. /\ Queue(q) /\ DOMAIN q = DOMAIN requests[c] \ {i}
      /\ \A j \in DOMAIN q : j \in DOMAIN requests[c] /\ q[j] = requests[c][j]
  BY <1>0, WithoutOne
<1>2. Changes(c, pages[c], q)
  BY DEF Take, Changes, IInv, Shape, tempFile, outFile
<1> HIDE DEF q
<1>3. DOMAIN out' = Names /\ DOMAIN writtenBy' = Names
  BY <1>0 DEF tempFile, outFile, history
<1>4. LocalInv'
  <2>1. \A j \in DOMAIN q : Fits(pages[c], q[j]) BY <1>1 DEF IInv, RequestsInv
  <2> QED BY <1>0, <1>1, <1>2, <1>3, <2>1, LocalStep DEF IInv, LocalInv
<1>5. OutFilesValid'
  <2>1. CASE tempFile(c, i) BY <2>1 DEF tempFile, history, IInv, OutFilesValid
  <2>2. CASE outFile(c, i)
    <3>1. r.doc \in Valid[r.by] BY <1>0, <2>2 DEF Fits, outFile
    <3>2. \A n \in Names : IF n = r.name THEN out'[n] = r.doc /\ writtenBy'[n] = r.by
                           ELSE out'[n] = out[n] /\ writtenBy'[n] = writtenBy[n]
      BY <1>0, <2>2 DEF outFile
    <3> QED BY <3>1, <3>2 DEF IInv, OutFilesValid
  <2> QED BY <2>1, <2>2
<1>6. SubmitInv'
  <2> SUFFICES ASSUME submitted # Absent PROVE SubmitInv'
    BY DEF SubmitInv, tempFile, outFile, history
  <2>1. submitted' = submitted /\ submitted.name \in Names /\ IsWrite(r)
    BY DEF IInv, SubmitInv, tempFile, outFile, history, IsWrite
  <2>2. r.doc = submitted.doc /\ (r.kind = "outFile" => r.name = submitted.name)
    BY <2>1 DEF IInv, SubmitInv
  <2>3. \A d \in Clients : /\ pages'[d] = pages[d]
                           /\ \A j \in DOMAIN requests'[d] :
                                j \in DOMAIN requests[d] /\ requests'[d][j] = requests[d][j]
    BY <1>1, <1>2 DEF Changes
  <2>4. ASSUME NEW kind, kind # r.kind, Pending(kind) PROVE Pending(kind)'
    BY <1>1, <1>2, <2>4 DEF Pending, Changes
  <2>5. dummyFile' = submitted.doc \/ Pending("tempFile")'
    <3>1. CASE tempFile(c, i) BY <2>2, <3>1 DEF tempFile
    <3>2. CASE outFile(c, i) BY <2>4, <3>2 DEF outFile, IInv, SubmitInv
    <3> QED BY <3>1, <3>2
  <2>6. out'[submitted.name] = submitted.doc \/ Pending("outFile")'
    <3>1. CASE tempFile(c, i) BY <2>4, <3>1 DEF tempFile, IInv, SubmitInv
    <3>2. CASE outFile(c, i) BY <1>0, <2>1, <2>2, <3>2 DEF outFile
    <3> QED BY <3>1, <3>2
  <2>7. \A d \in Clients : \A j \in DOMAIN requests'[d] : IsWrite(requests'[d][j]) =>
          /\ pages'[d].at = "editor" /\ ~requests'[d][j].gone
          /\ requests'[d][j].doc = submitted.doc
          /\ requests'[d][j].kind = "outFile" => requests'[d][j].name = submitted.name
    BY <2>3 DEF IInv, SubmitInv
  <2> QED BY <2>1, <2>5, <2>6, <2>7 DEF SubmitInv, IsWrite
<1> QED BY <1>4, <1>5, <1>6 DEF IInv, LocalInv

-----------------------------------------------------------------------------
(* The theorems.                                                           *)

(* All pages are menus, and nothing is under way. *)
LEMMA InitStep == Init => IInv
<1> SUFFICES ASSUME Init PROVE IInv
  OBVIOUS
<1> DEFINE menu == Page("menu", NoName)
<1>1. DOMAIN menu = PageFields /\ menu.at = "menu" /\ menu.name = NoName
  BY DEF Page, PageFields
<1>2. Agrees(menu) BY <1>1 DEF Agrees
<1> HIDE DEF menu
<1>3. DOMAIN NoRequests = {} /\ Queue(NoRequests) BY FS_EmptySet DEF NoRequests, Queue
<1>4. /\ DOMAIN pages = Clients /\ \A c \in Clients : pages[c] = menu
      /\ DOMAIN requests = Clients /\ \A c \in Clients : requests[c] = NoRequests
      /\ DOMAIN out = Names /\ DOMAIN writtenBy = Names
      /\ \A n \in Names : writtenBy[n] = Absent
      /\ submitted = Absent
  BY PagesAssumption DEF Init, menu
<1> QED BY <1>1, <1>2, <1>3, <1>4 DEF IInv, Shape, PagesInv, RequestsInv, OutFilesValid,
                                     NamesInv, SubmitInv

(* The invariant of the configuration pages. *)
THEOREM Inductive == Spec => []IInv
<1>1. ASSUME IInv, NEW c \in Clients, User(c) \/ changeEvent(c) PROVE IInv'
  BY <1>1, LinkStep, PageStep, SendStep, SubmitStep, LeaveEditorStep DEF User
<1>2. ASSUME IInv, NEW c \in Clients, NEW i \in DOMAIN requests[c], Serve(c, i) PROVE IInv'
  BY <1>2, AnswerStep, ReadStep, WriteStep DEF Serve
<1>3. IInv /\ UNCHANGED vars => IInv'
  BY StutterStep DEF vars
<1>4. IInv /\ [Next]_vars => IInv'
  BY <1>1, <1>2, <1>3 DEF Next
<1> QED BY InitStep, <1>4, PTL DEF Spec

(***************************************************************************)
(* Once an editor has handled its change events, "Submit" is offered, with *)
(* help or without, exactly when the document is valid: however help is    *)
(* switched between changes, and whenever schema and document arrive.      *)
(***************************************************************************)
THEOREM Buttons == Spec => []ButtonsAgree
<1>1. IInv => ButtonsAgree BY DEF IInv, PagesInv, Agrees, ButtonsAgree
<1> QED BY Inductive, <1>1, PTL

(***************************************************************************)
(* No editor writes a document that its schema refuses, whatever happens   *)
(* between the validation and the arrival of the request.                  *)
(***************************************************************************)
THEOREM OnlyValidFiles == Spec => []OutFilesValid
<1>1. IInv => OutFilesValid BY DEF IInv
<1> QED BY Inductive, <1>1, PTL

(***************************************************************************)
(* A submission that no other write crosses has written both the working   *)
(* copy and the file when all requests have been served: neither request   *)
(* of it aborts the other.                                                 *)
(***************************************************************************)
THEOREM BothFiles == Spec => []SubmitWritesBoth
<1>1. IInv => SubmitWritesBoth
  <2> SUFFICES ASSUME IInv, submitted # Absent, \A c \in Clients : requests[c] = NoRequests
               PROVE  dummyFile = submitted.doc /\ out[submitted.name] = submitted.doc
    BY DEF SubmitWritesBoth
  <2>1. \A c \in Clients : DOMAIN requests[c] = {} BY DEF NoRequests
  <2>2. ~Pending("tempFile") /\ ~Pending("outFile") BY <2>1 DEF Pending
  <2> QED BY <2>2 DEF IInv, SubmitInv
<1> QED BY Inductive, <1>1, PTL

=============================================================================

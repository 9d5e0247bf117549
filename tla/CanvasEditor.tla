---------------------------- MODULE CanvasEditor ----------------------------
(***************************************************************************)
(* The canvas page of the configuration GUI (drag.js) and the working copy *)
(* it edits.                                                               *)
(*                                                                         *)
(* The page draws modules, their sender and receiver connectors and the    *)
(* links between connectors.  Every change is saved by a chain of three    *)
(* asynchronous steps: GET the working copy, change the document in the    *)
(* success callback, POST the whole document back (editModule, type        *)
(* tempFile).  Nothing orders two such chains, and the callbacks read the  *)
(* page's globals (moduleArray, TEMPORARYINFO, the value of the form) when *)
(* they run, not when the user acted.                                      *)
(*                                                                         *)
(* Abstractions.  Positions, drawing and hosts are left out.  A module ID  *)
(* is its position in moduleArray (drag.js:10, 30, 662: IDs are handed out *)
(* in the order of the pushes).  The list of link names that a connector   *)
(* keeps is a bag, because only its length and membership are used; as a   *)
(* name holds both of its ends, one bag stands for all sender lists and    *)
(* one for all receiver lists.  chid k is element k + 1 of a sequence.     *)
(***************************************************************************)
EXTENDS Integers, Sequences, FiniteSets, SequencesExt

CONSTANTS
    Bases,          \* the names that the user types in the module forms
    MixedCase,      \* those of Bases that are not all lower case
    Paths,          \* ipc paths that the user types in the connection form
    InitialFiles,   \* working copies the page may be opened on
    NoLink,         \* TEMPORARYINFO before the first link (null)
    MaxModules,     \* bound on the modules of the canvas
    MaxConnectors,  \* bound on the senders, and on the receivers, of a module
    MaxRequests,    \* bound on the chains in flight at once
    MaxOps          \* bound on the operations of the user

Plain == -1     \* the number of a name without a number
Blank == [transport |-> "undefined", key |-> 0]   \* {"chid": k}
NoConn == [transport |-> "invalid", key |-> 0]    \* fails the validation

\* A working copy: its components with their connectors.
Conn == {Blank} \cup [transport : {"tcp"}, key : Nat] \cup [transport : {"ipc"}, key : Paths]
Document == Seq([name : Bases \X (Plain..99), port : Nat,
                 senders : Seq(Conn), receivers : Seq(Conn)])

ASSUME CanvasAssumption ==
    /\ MixedCase \subseteq Bases
    /\ InitialFiles \subseteq Document
    /\ \A doc \in InitialFiles : \A i, j \in DOMAIN doc : doc[i].port = doc[j].port => i = j
    /\ {MaxModules, MaxConnectors, MaxRequests, MaxOps} \subseteq Nat
    /\ MaxConnectors < 10   \* above it the mouse handlers read one digit of
                            \* the connector's number (drag.js:213, 299)

VARIABLES
    moduleArray,         \* the modules: name, port, numbers of connectors
    sendLists,           \* bag: connections["senders"] of all the modules
    receiveLists,        \* bag: connections["receivers"]
    overallConnections,  \* the links drawn, in the order of insertion
    TEMPORARYINFO,       \* the link drawn last
    form,                \* the connection form: shown, and its value
    forms,               \* the forms that the page has made from the schema
    PORTMODULE,          \* next port for a module
    PORTCONNECTION,      \* next port for a connection
    file,                \* the working copy on the server
    requests,            \* the chains in flight
    ops,                 \* operations so far (bound)
    overlapped,          \* history: the user has gone on, with another chain
                         \* or another link, while a chain was in flight
    unsaved              \* history: and since then no save has run alone

page == <<moduleArray, sendLists, receiveLists, overallConnections,
          TEMPORARYINFO, form, forms, PORTMODULE, PORTCONNECTION>>
history == <<ops, overlapped, unsaved>>
vars == <<page, file, requests, history>>

-----------------------------------------------------------------------------
(* Documents.                                                              *)

Component(name, port, s, r) ==
    [name |-> name, port |-> port, senders |-> s, receivers |-> r]

Names(doc) == {doc[i].name : i \in DOMAIN doc}

\* What a loop pushes that pushes the elements of ss[1], ss[2] and so on.
Flatten(ss) ==
    LET upTo[n \in 0..Len(ss)] == IF n = 0 THEN <<>> ELSE upTo[n - 1] \o ss[n]
    IN  upTo[Len(ss)]

MaxOr(S, default) == IF S = {} THEN default ELSE Max(S)

\* The connectors of a document that carry a port: only tcp ones do.
Ports(doc) ==
    {c.key : c \in {d \in UNION {ToSet(doc[i].senders) \cup ToSet(doc[i].receivers)
                                  : i \in DOMAIN doc} : d.transport = "tcp"}}

-----------------------------------------------------------------------------
(* Links.                                                                  *)

Link == [mSend : 1..MaxModules, ioSend : 0..MaxConnectors - 1,
         mReceive : 1..MaxModules, ioReceive : 0..MaxConnectors - 1]

\* Links between connectors that are on the canvas.
Drawable ==
    {l \in Link : /\ {l.mSend, l.mReceive} \subseteq DOMAIN moduleArray
                  /\ l.ioSend < moduleArray[l.mSend].nSend
                  /\ l.ioReceive < moduleArray[l.mReceive].nReceive}

\* The first link of overallConnections that decides, in the order of
\* insertion: the exact one is not looked for first.
checkConnection(l) ==
    LET sameReceiver(o) == o.mReceive = l.mReceive /\ o.ioReceive = l.ioReceive
        sameSender(o) == o.mSend = l.mSend /\ o.ioSend = l.ioSend
        i == SelectInSeq(overallConnections,
                         LAMBDA o : sameReceiver(o) \/ sameSender(o))
    IN  CASE i = 0 -> "new"
          [] i > 0 /\ overallConnections[i] = l -> "exists"
          [] i > 0 /\ overallConnections[i] # l
                   /\ sameReceiver(overallConnections[i]) -> "receiver_full"
          [] OTHER -> "sender_full"

Lines == [sends |-> sendLists, receives |-> receiveLists, overall |-> overallConnections]

\* The name is pushed on both lists; a name that overallConnections already
\* has keeps its place there.
WithLink(lines, l) ==
    [sends |-> (lines.sends (+) SetToBag({l})), receives |-> (lines.receives (+) SetToBag({l})),
     overall |-> IF Contains(lines.overall, l) THEN lines.overall
                 ELSE Append(lines.overall, l)]

WithLinks(lines, links) ==
    LET upTo[n \in 0..Len(links)] ==
            IF n = 0 THEN lines ELSE WithLink(upTo[n - 1], links[n])
    IN  upTo[Len(links)]

LinesAre(lines) ==
    /\ sendLists' = lines.sends /\ receiveLists' = lines.receives
    /\ overallConnections' = lines.overall

connectLines(l) == LinesAre(WithLink(Lines, l))

\* Mutant: the receiver's list is forgotten.
deleteConnection_sender(l) ==
    /\ sendLists' = sendLists (-) SetToBag({l})
    /\ receiveLists' = receiveLists
    /\ overallConnections' = RemoveFirst(overallConnections, l)

\* One entry is spliced out of each list, and the line is removed.
deleteConnection(l) ==
    /\ sendLists' = sendLists (-) SetToBag({l})
    /\ receiveLists' = receiveLists (-) SetToBag({l})
    /\ overallConnections' = RemoveFirst(overallConnections, l)

\* Every connector before the new one must be in use.
checkAddInOut(m, type) ==
    IF type = "send"
    THEN \A i \in 0..moduleArray[m].nSend - 1 :
            \E l \in BagToSet(sendLists) : l.mSend = m /\ l.ioSend = i
    ELSE \A i \in 0..moduleArray[m].nReceive - 1 :
            \E l \in BagToSet(receiveLists) : l.mReceive = m /\ l.ioReceive = i

-----------------------------------------------------------------------------
(* Ports.                                                                  *)

\* Mutant: the port found in the document is handed out again.
portRange_same(current, port) == IF port = -1 THEN current + 1 ELSE port

\* The value of the port generator after portRange(type, port).
portRange(current, port) == IF port = -1 THEN current + 1 ELSE port + 1

-----------------------------------------------------------------------------
(* Requests.  stage: "sent", the GET is under way; "got", its answer is;    *)
(* "post", the POST of data is.  alone: no other chain has been in flight  *)
(* beside this one (history).                                              *)

Request(kind, mSend, mRec, from) ==
    [kind |-> kind, stage |-> "sent", data |-> <<>>,
     mSend |-> mSend, mRec |-> mRec, from |-> from, alone |-> TRUE]

\* A chain starts.
Start(r) ==
    /\ Len(requests) < MaxRequests
    /\ requests' = IF requests = <<>> THEN <<r>>
                   ELSE [i \in 1..Len(requests) + 1 |->
                            [Append(requests, r)[i] EXCEPT !.alone = FALSE]]
    /\ overlapped' = (overlapped \/ requests # <<>>)
    /\ unsaved' = (unsaved \/ requests # <<>>)

writeJSON == Start(Request("write", 0, 0, "none"))

\* The modules of both ends are found when the chain starts; the connectors
\* are those of TEMPORARYINFO when the callback runs.
copyConnectors(l, from) ==
    Start(Request("copy", l.mSend, l.mReceive, from))

-----------------------------------------------------------------------------
(* Operations of the user.  While the connection form is shown its overlay *)
(* covers the canvas.                                                      *)

Operation == ops < MaxOps /\ ~form.open /\ ops' = ops + 1

\* A module as the constructor makes it, without connectors.
Module(name, port) == [name |-> name, port |-> port, nSend |-> 0, nReceive |-> 0]

\* submitNewModule: one module with the name typed, which may be taken.
submitNewModule(base) ==
    /\ Operation /\ "modules" \in forms
    /\ Len(moduleArray) < MaxModules
    /\ moduleArray' = Append(moduleArray, Module(<<base, Plain>>, PORTMODULE))
    /\ PORTMODULE' = portRange(PORTMODULE, -1)
    /\ writeJSON
    /\ UNCHANGED <<sendLists, receiveLists, overallConnections, TEMPORARYINFO,
                   form, forms, PORTCONNECTION, file>>

\* The number that submitNewMultiModules counts on from.  The names on the
\* canvas are lower-cased before they are compared with the name typed.
LastNumber(base) ==
    MaxOr({moduleArray[i].name[2] : i \in {j \in DOMAIN moduleArray :
             moduleArray[j].name[1] = base /\ base \notin MixedCase}} \cup {0}, 0)

\* Two digits are kept of the number.
submitNewMultiModules(base, nb) ==
    /\ Operation /\ "modules" \in forms
    /\ Len(moduleArray) + nb =< MaxModules
    /\ moduleArray' = moduleArray \o
         [i \in 1..nb |-> Module(<<base, (LastNumber(base) + i) % 100>>,
                                 PORTMODULE + i - 1)]
    /\ PORTMODULE' = PORTMODULE + nb
    /\ writeJSON
    /\ UNCHANGED <<sendLists, receiveLists, overallConnections, TEMPORARYINFO,
                   form, forms, PORTCONNECTION, file>>

\* The "S" and "R" buttons save also when no connector has been added.
makeSenderContainer(m) ==
    /\ Operation
    /\ moduleArray[m].nSend < MaxConnectors
    /\ moduleArray' = IF checkAddInOut(m, "send")
                      THEN [moduleArray EXCEPT ![m].nSend = @ + 1]
                      ELSE moduleArray
    /\ writeJSON
    /\ UNCHANGED <<sendLists, receiveLists, overallConnections, TEMPORARYINFO,
                   form, forms, PORTMODULE, PORTCONNECTION, file>>

makeReceiverContainer(m) ==
    /\ Operation
    /\ moduleArray[m].nReceive < MaxConnectors
    /\ moduleArray' = IF checkAddInOut(m, "receiver")
                      THEN [moduleArray EXCEPT ![m].nReceive = @ + 1]
                      ELSE moduleArray
    /\ writeJSON
    /\ UNCHANGED <<sendLists, receiveLists, overallConnections, TEMPORARYINFO,
                   form, forms, PORTMODULE, PORTCONNECTION, file>>

\* The form is filled with the next port and shown.
callConnectForm ==
    /\ form' = [open |-> TRUE, value |-> [transport |-> "tcp", key |-> PORTCONNECTION]]
    /\ PORTCONNECTION' = portRange(PORTCONNECTION, -1)
    /\ overlapped' = (overlapped \/ requests # <<>>)
    /\ UNCHANGED <<requests, unsaved>>

\* The mouse is released on the other end of l.  The link is drawn at once,
\* before the form is submitted and before the copy has been made; without
\* the connection form the handler stops at a TypeError.
Draw(l) ==
    LET state == checkConnection(l)
        lines == <<sendLists, receiveLists, overallConnections>>
    IN  /\ Operation
        /\ state # "exists"
        /\ TEMPORARYINFO' = l
        /\ \/ /\ state = "new" /\ "connection" \notin forms
              /\ overlapped' = (overlapped \/ requests # <<>>)
              /\ UNCHANGED <<lines, form, PORTCONNECTION, requests, unsaved>>
           \/ /\ state = "new" /\ "connection" \in forms
              /\ callConnectForm /\ connectLines(l)
           \/ /\ state = "receiver_full"
              /\ copyConnectors(l, "receiver") /\ connectLines(l)
              /\ UNCHANGED <<form, PORTCONNECTION>>
           \/ /\ state = "sender_full"
              /\ copyConnectors(l, "sender") /\ connectLines(l)
              /\ UNCHANGED <<form, PORTCONNECTION>>
        /\ UNCHANGED <<moduleArray, forms, PORTMODULE, file>>

\* From a sender to the receiver under the mouse, and the other way round.
initDrawingSend(m, io) ==
    \E l \in {d \in Drawable : d.mSend = m /\ d.ioSend = io} : Draw(l)

initDrawingReceive(m, io) ==
    \E l \in {d \in Drawable : d.mReceive = m /\ d.ioReceive = io} : Draw(l)

\* "Add new connection": the value stays in the form, which is hidden.
submitNewConnection(value) ==
    /\ form.open
    /\ form' = [open |-> FALSE, value |-> value]
    /\ Start(Request("submit", TEMPORARYINFO.mSend, TEMPORARYINFO.mReceive, "none"))
    /\ UNCHANGED <<moduleArray, sendLists, receiveLists, overallConnections,
                   TEMPORARYINFO, forms, PORTMODULE, PORTCONNECTION, file, ops>>

\* The form is closed without being submitted.
cancelConnection ==
    /\ form.open
    /\ form' = [form EXCEPT !.open = FALSE]
    /\ deleteConnection(TEMPORARYINFO)
    /\ UNCHANGED <<moduleArray, TEMPORARYINFO, forms, PORTMODULE, PORTCONNECTION,
                   file, requests, history>>

\* What the user may leave in the form: the port that was filled in, another
\* transport with a path, or something the schema refuses.
FormValues ==
    {form.value, NoConn} \cup {[transport |-> "ipc", key |-> p] : p \in Paths}

-----------------------------------------------------------------------------
(* The server.                                                             *)

\* A GET of the working copy is answered.
ServeGet(i) ==
    /\ requests[i].stage = "sent"
    /\ requests' = [requests EXCEPT ![i].stage = "got", ![i].data = file]
    /\ UNCHANGED <<page, file, history>>

\* A GET served while a POST truncates and writes the file gets no whole
\* document: it does not parse, and no chain has an error callback.
GetFails(i) ==
    /\ requests[i].stage = "sent"
    /\ \E j \in DOMAIN requests : requests[j].stage = "post"
    /\ requests' = RemoveAt(requests, i)
    /\ UNCHANGED <<page, file, history>>

\* editModule, type tempFile: the POST replaces the whole working copy.
editModule(i) ==
    /\ requests[i].stage = "post"
    /\ file' = requests[i].data
    /\ requests' = RemoveAt(requests, i)
    /\ unsaved' = (unsaved /\ ~(requests[i].kind = "write" /\ requests[i].alone))
    /\ UNCHANGED <<page, ops, overlapped>>

-----------------------------------------------------------------------------
(* Success callbacks.                                                      *)

Answered(i, kind) == requests[i].kind = kind /\ requests[i].stage = "got"

\* The callback ends with xhr.send(doc).
Post(i, doc) == requests' = [requests EXCEPT ![i].stage = "post", ![i].data = doc]
\* The callback ends without a POST: a TypeError, or nothing to save.
Ends(i) == requests' = RemoveAt(requests, i)

Pad(s, n) == s \o [k \in 1..(n - Len(s)) |-> Blank]

\* The modules of the canvas that have no component yet.
NewComponents(doc) ==
    Flatten([m \in DOMAIN moduleArray |->
        IF moduleArray[m].name \in Names(doc) THEN <<>>
        ELSE <<Component(moduleArray[m].name, moduleArray[m].port,
                         Pad(<<>>, moduleArray[m].nSend),
                         Pad(<<>>, moduleArray[m].nReceive))>>])

\* Mutant: components that are there are left as they are.
Merge_new(doc) == doc \o NewComponents(doc)

\* The document with what is on the canvas: connectors are added to the
\* components that are there, modules of a new name become components.
Merge(doc) ==
    LET named(name) == {j \in DOMAIN moduleArray : moduleArray[j].name = name}
        grown(c) ==
            [c EXCEPT !.senders = Pad(@, MaxOr({moduleArray[j].nSend : j \in named(c.name)}, 0)),
                      !.receivers = Pad(@, MaxOr({moduleArray[j].nReceive : j \in named(c.name)}, 0))]
    IN  [i \in DOMAIN doc |-> grown(doc[i])] \o NewComponents(doc)

WriteCallback(i) ==
    /\ Answered(i, "write")
    /\ Post(i, Merge(requests[i].data))
    /\ UNCHANGED <<page, file, history>>

\* Mutant: only the receiver's connector gets the value.
Fill_receiver(doc, r) ==
    LET rec == moduleArray[r.mRec].name
        put(s, chid) == [k \in DOMAIN s |-> IF k = chid + 1 THEN form.value ELSE s[k]]
    IN  [i \in DOMAIN doc |->
            [doc[i] EXCEPT
                !.receivers = IF doc[i].name = rec THEN put(@, TEMPORARYINFO.ioReceive) ELSE @]]

\* Sender and receiver connectors get the value that the form has now, under
\* the chids that TEMPORARYINFO has now.
Fill(doc, r) ==
    LET rec == moduleArray[r.mRec].name
        send == moduleArray[r.mSend].name
        put(s, chid) == [k \in DOMAIN s |-> IF k = chid + 1 THEN form.value ELSE s[k]]
    IN  [i \in DOMAIN doc |->
            [doc[i] EXCEPT
                !.receivers = IF doc[i].name = rec THEN put(@, TEMPORARYINFO.ioReceive) ELSE @,
                !.senders = IF doc[i].name = send THEN put(@, TEMPORARYINFO.ioSend) ELSE @]]

\* A component without a list of receivers or senders stops the callback.
Fillable(doc, r) ==
    \A i \in DOMAIN doc :
        /\ doc[i].name = moduleArray[r.mRec].name => doc[i].receivers # <<>>
        /\ doc[i].name = moduleArray[r.mSend].name => doc[i].senders # <<>>

SubmitCallback(i) ==
    /\ Answered(i, "submit")
    /\ \/ /\ form.value = NoConn    \* jsoneditor.validate() has errors
          /\ deleteConnection(TEMPORARYINFO)
          /\ Ends(i)
       \/ /\ form.value # NoConn
          /\ IF Fillable(requests[i].data, requests[i])
             THEN Post(i, Fill(requests[i].data, requests[i]))
             ELSE Ends(i)
          /\ UNCHANGED <<sendLists, receiveLists, overallConnections>>
    /\ UNCHANGED <<moduleArray, TEMPORARYINFO, form, forms, PORTMODULE, PORTCONNECTION,
                   file, history>>

\* The positions of the two components: the loop over the document leaves at
\* its second hit, whichever end it is for.
Hits(doc, r) ==
    LET hit(i) == (IF doc[i].name = moduleArray[r.mRec].name THEN <<<<"rec", i>>>> ELSE <<>>)
                  \o (IF doc[i].name = moduleArray[r.mSend].name THEN <<<<"send", i>>>> ELSE <<>>)
        all == Flatten([i \in DOMAIN doc |-> hit(i)])
        two == {all[k] : k \in DOMAIN all \cap {1, 2}}
        last(end) == MaxOr({h[2] : h \in {x \in two : x[1] = end}}, 0)
    IN  [rec |-> last("rec"), send |-> last("send")]

copyFromReceiver(doc, pos, k, l) ==
    LET c == doc[pos.rec].receivers[l]
    IN  IF c = Blank THEN doc ELSE [doc EXCEPT ![pos.send].senders[k] = c]

copyFromSender(doc, pos, k, l) ==
    LET c == doc[pos.send].senders[k]
    IN  IF c = Blank THEN doc ELSE [doc EXCEPT ![pos.rec].receivers[l] = c]

CopyCallback(i) ==
    LET doc == requests[i].data
        pos == Hits(doc, requests[i])
        k == TEMPORARYINFO.ioSend + 1
        l == TEMPORARYINFO.ioReceive + 1
    IN  /\ Answered(i, "copy")
        /\ IF /\ pos.rec # 0 /\ pos.send # 0
              /\ k =< Len(doc[pos.send].senders)
              /\ l =< Len(doc[pos.rec].receivers)
           THEN Post(i, IF requests[i].from = "receiver"
                        THEN copyFromReceiver(doc, pos, k, l)
                        ELSE copyFromSender(doc, pos, k, l))
           ELSE Ends(i)
        /\ UNCHANGED <<page, file, history>>

-----------------------------------------------------------------------------
(* Loading the page.                                                       *)

\* The module that a component is given: the last one of its name.
Owner(c, mods) == Max({j \in DOMAIN mods : mods[j].name = c.name})

\* The connectors of a document in the order they are read.
Connectors(doc, mods) ==
    LET items(i, side) == [k \in DOMAIN doc[i][side] |->
            [side |-> side, m |-> Owner(doc[i], mods), chid |-> k - 1, conn |-> doc[i][side][k]]]
    IN  Flatten([i \in DOMAIN doc |-> items(i, "senders") \o items(i, "receivers")])

\* Connectors of equal transport and port or path are linked, each sender
\* with each receiver, key by key in the order of their first appearance.
LinksOf(doc, mods) ==
    LET conns == Connectors(doc, mods)
        first(n) == conns[n].conn # Blank /\ \A k \in 1..n - 1 : conns[k].conn # conns[n].conn
        link(n, a, b) ==
            IF /\ conns[a].side = "senders" /\ conns[b].side = "receivers"
               /\ conns[a].conn = conns[n].conn /\ conns[b].conn = conns[n].conn
            THEN <<[mSend |-> conns[a].m, ioSend |-> conns[a].chid,
                    mReceive |-> conns[b].m, ioReceive |-> conns[b].chid]>>
            ELSE <<>>
        pairs(n) == Flatten([a \in DOMAIN conns |->
                        Flatten([b \in DOMAIN conns |-> link(n, a, b)])])
    IN  Flatten([n \in DOMAIN conns |-> IF first(n) THEN pairs(n) ELSE <<>>])

\* Every component becomes a module ...
dragAndDrop(doc) ==
    moduleArray \o [i \in DOMAIN doc |-> Module(doc[i].name, doc[i].port)]

\* ... and every connector is added, used or not.
makeSenderContainerREADINGONLY(module, n) == [module EXCEPT !.nSend = @ + n]
makeReceiverContainerREADINGONLY(module, n) == [module EXCEPT !.nReceive = @ + n]

Loaded(doc) ==
    LET mods == dragAndDrop(doc)
        count(m, side) == Cardinality(UNION {{i} \X DOMAIN doc[i][side] :
                              i \in {j \in DOMAIN doc : Owner(doc[j], mods) = m}})
    IN  [m \in DOMAIN mods |->
            makeReceiverContainerREADINGONLY(
                makeSenderContainerREADINGONLY(mods[m], count(m, "senders")),
                count(m, "receivers"))]

\* readJSON_helper: the callback of the GET of the position file, whether
\* that file is there or not.
readJSON_helper(i) ==
    LET doc == requests[i].data
        mods == Loaded(doc)
        links == LinksOf(doc, mods)
    IN  /\ Answered(i, "load")
        /\ moduleArray' = mods
        /\ LinesAre(WithLinks(Lines, links))
        /\ PORTCONNECTION' = portRange(PORTCONNECTION, MaxOr(Ports(doc), -1))
        /\ PORTMODULE' = portRange(PORTMODULE, MaxOr({doc[k].port : k \in DOMAIN doc}, -1))
        /\ Ends(i)
        /\ UNCHANGED <<TEMPORARYINFO, form, forms, file, history>>

\* The forms are made when the schema has arrived.
initConnectionForm ==
    /\ "connection" \notin forms
    /\ forms' = forms \cup {"connection"}
    /\ UNCHANGED <<moduleArray, sendLists, receiveLists, overallConnections, TEMPORARYINFO,
                   form, PORTMODULE, PORTCONNECTION, file, requests, history>>

initNewModuleForm ==
    /\ "modules" \notin forms
    /\ forms' = forms \cup {"modules"}
    /\ UNCHANGED <<moduleArray, sendLists, receiveLists, overallConnections, TEMPORARYINFO,
                   form, PORTMODULE, PORTCONNECTION, file, requests, history>>

readJSON == Request("load", 0, 0, "none")

\* A new page: the globals of the script, and readJSON under way.
PageStart ==
    [moduleArray |-> <<>>, bag |-> EmptyBag, connections |-> <<>>,
     form |-> [open |-> FALSE, value |-> NoConn],
     portModule |-> 5000, portConnection |-> 8000]

\* The page is left for another one and opened again.  The callbacks of the
\* old page are gone; a POST that has been sent may still arrive.
Reload ==
    /\ ops < MaxOps /\ ops' = ops + 1
    /\ moduleArray' = PageStart.moduleArray
    /\ sendLists' = PageStart.bag /\ receiveLists' = PageStart.bag
    /\ overallConnections' = PageStart.connections
    /\ TEMPORARYINFO' = NoLink
    /\ form' = PageStart.form /\ forms' = {}
    /\ PORTMODULE' = PageStart.portModule
    /\ PORTCONNECTION' = PageStart.portConnection
    /\ \E arriving \in SUBSET {i \in DOMAIN requests : requests[i].stage = "post"} :
        requests' = Flatten([i \in DOMAIN requests |->
                        IF i \in arriving THEN <<[requests[i] EXCEPT !.alone = FALSE]>> ELSE <<>>])
                    \o <<[readJSON EXCEPT !.alone = (arriving = {})]>>
    /\ overlapped' = (overlapped \/ requests # <<>>)
    /\ unsaved' = (unsaved \/ requests # <<>>)
    /\ UNCHANGED file

-----------------------------------------------------------------------------

Init ==
    /\ moduleArray = PageStart.moduleArray
    /\ sendLists = PageStart.bag /\ receiveLists = PageStart.bag
    /\ overallConnections = PageStart.connections
    /\ TEMPORARYINFO = NoLink
    /\ form = PageStart.form /\ forms = {}
    /\ PORTMODULE = PageStart.portModule
    /\ PORTCONNECTION = PageStart.portConnection
    /\ file \in InitialFiles
    /\ requests = <<readJSON>>
    /\ ops = 0
    /\ overlapped = FALSE /\ unsaved = FALSE

User ==
    \/ \E b \in Bases : submitNewModule(b)
    \/ \E b \in Bases, nb \in 1..2 : submitNewMultiModules(b, nb)
    \/ \E m \in DOMAIN moduleArray : makeSenderContainer(m)
    \/ \E m \in DOMAIN moduleArray : makeReceiverContainer(m)
    \/ \E m \in DOMAIN moduleArray, io \in 0..MaxConnectors - 1 : initDrawingSend(m, io)
    \/ \E m \in DOMAIN moduleArray, io \in 0..MaxConnectors - 1 : initDrawingReceive(m, io)
    \/ \E v \in FormValues : submitNewConnection(v)
    \/ cancelConnection
    \/ Reload

Background ==
    \/ initConnectionForm
    \/ initNewModuleForm
    \/ \E i \in DOMAIN requests : ServeGet(i)
    \/ \E i \in DOMAIN requests : GetFails(i)
    \/ \E i \in DOMAIN requests : editModule(i)
    \/ \E i \in DOMAIN requests : WriteCallback(i)
    \/ \E i \in DOMAIN requests : SubmitCallback(i)
    \/ \E i \in DOMAIN requests : CopyCallback(i)
    \/ \E i \in DOMAIN requests : readJSON_helper(i)

Next == User \/ Background

Spec == Init /\ [][Next]_vars

-----------------------------------------------------------------------------
(* Properties.                                                             *)

\* Nothing under way, and no operation was begun before the last one ended.
Quiet == requests = <<>> /\ ~form.open /\ ~overlapped

\* No name is used twice in a document or on the canvas.
DistinctNames(s) == \A i, j \in DOMAIN s : s[i].name = s[j].name => i = j

\* drag.js keeps every link in three places: the list of its sender, the
\* list of its receiver and overallConnections.  Redrawing a module goes
\* from the lists to overallConnections and fails on a link that is missing
\* there; an orphan line cannot be moved.  As long as operations do not overlap,
\* the three agree, also when a link is drawn twice, cancelled or refused.
LinesAgree ==
    ~overlapped =>
        /\ sendLists = receiveLists
        /\ BagToSet(sendLists) = ToSet(overallConnections)

\* writeJSON merges all of the canvas each time, so it makes good what an
\* overlap has lost: once a save has run alone, and until chains overlap
\* again, every module of the canvas is in the working copy with all of its
\* connectors whenever nothing is under way.
SavesHeal ==
    (requests = <<>> /\ ~unsaved /\ DistinctNames(file)) =>
        \A m \in DOMAIN moduleArray :
            \E i \in DOMAIN file :
                /\ file[i].name = moduleArray[m].name
                /\ Len(file[i].senders) >= moduleArray[m].nSend
                /\ Len(file[i].receivers) >= moduleArray[m].nReceive

\* The ports that the page hands out are new: no two modules of the canvas
\* have the same control port, whatever the loaded document used.
ModulePortsUnique ==
    ~overlapped => \A a, b \in DOMAIN moduleArray :
        moduleArray[a].port = moduleArray[b].port => a = b

\* No two of the links share a connector.
Apart(L) ==
    \A a, b \in L : a # b => /\ <<a.mSend, a.ioSend>> # <<b.mSend, b.ioSend>>
                             /\ <<a.mReceive, a.ioReceive>> # <<b.mReceive, b.ioReceive>>

\* No two links share a connector, and no ipc path is that of two senders or
\* of two receivers (the path that a user typed for one link is not free).
Separate ==
    /\ Apart(ToSet(overallConnections))
    /\ \A c, d \in ToSet(Connectors(file, moduleArray)) :
          c.conn = d.conn /\ c.conn.transport = "ipc" /\ c.side = d.side => c = d

\* Opening the page again shows the links that are on it now, provided that
\* each connector has one link and no module name is used twice.
ReloadShowsTheSame ==
    (Quiet /\ DistinctNames(moduleArray) /\ Separate) =>
        ToSet(LinksOf(file, moduleArray)) = ToSet(overallConnections)
=============================================================================

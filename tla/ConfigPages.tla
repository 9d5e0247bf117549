---------------------------- MODULE ConfigPages -----------------------------
(***************************************************************************)
(* The pages of the configuration GUI and the files that they share: the   *)
(* menu (menu.js, initPage.py), the canvas as far as it loads and stores   *)
(* the working copy, and the JSON editor (input.js, input.py).             *)
(*                                                                         *)
(* There is one working copy, dummyFile.json, and one selected schema for  *)
(* all browsers.  Pages read and write them by requests without callbacks  *)
(* on success or failure, and leave while requests are still under way.    *)
(*                                                                         *)
(* Abstractions.  A document is an element of Docs, and Valid says which   *)
(* schema accepts it.  What the canvas stores is any document here: module *)
(* CanvasEditor says which.  Of the class of a button only "disabled"      *)
(* matters, which makes it unclickable.                                    *)
(***************************************************************************)
EXTENDS Integers, FiniteSets, Requests

CONSTANTS
    Clients,     \* browsers, one page in each
    Docs,        \* documents
    Empty,       \* the document of "New configuration file"
    Default,     \* what the editor holds before its document has arrived
    Absent,      \* no document
    Schemas,     \* the schemas of DAQ_CONFIG_DIR
    Valid,       \* Valid[s]: the documents that s accepts
    Names,       \* file names
    NoName,      \* currentFileName of a document without a name
    InitialOut,  \* the files of DAQ_CONFIG_DIR at the start
    MaxOps,      \* bound on the operations of the users
    MaxRequests  \* bound on the requests of a page in flight

ASSUME PagesAssumption ==
    /\ {Empty, Default} \subseteq Docs /\ Absent \notin Docs
    /\ \A s \in Schemas : Valid[s] \subseteq Docs
    /\ InitialOut \in [Names -> Docs \cup {Absent}] /\ NoName \notin Names
    /\ {MaxOps, MaxRequests} \subseteq Nat

VARIABLES
    pages,      \* the page in each browser
    dummyFile,  \* the working copy
    out,        \* the files of DAQ_CONFIG_DIR
    schema,     \* the selected schema
    requests,   \* the requests of each browser, by number, in no order
    ops,        \* operations so far (bound)
    writtenBy,  \* history: the schema of the editor that wrote a file
    submitted   \* history: the last submission, if nothing crossed it

files == <<dummyFile, out, schema>>
history == <<writtenBy, submitted>>
vars == <<pages, files, requests, ops, history>>

-----------------------------------------------------------------------------
(* Pages.  A canvas holds the document that it has drawn.  An editor is    *)
(* "ready" once it has its schema; dirty says that a change event is due.  *)
(* submit and submit2 are the buttons "Submit" without and with help,      *)
(* submitButtonState is what help puts back.                               *)

Page(at, name) ==
    [at |-> at, name |-> name, value |-> IF at = "editor" THEN Default ELSE Absent,
     schema |-> Absent, ready |-> FALSE, dirty |-> FALSE, HELPACTIVATED |-> FALSE,
     asking |-> FALSE, submit |-> "enabled", submit2 |-> "enabled",
     submitButtonState |-> "null"]

Validates(p) == p.value \in Valid[p.schema]

\* Mutant: the state is saved only while the buttons are shown.
change_shown(p) ==
    LET state == IF Validates(p) THEN "enabled" ELSE "disabled"
    IN  IF p.HELPACTIVATED THEN [p EXCEPT !.dirty = FALSE, !.submit2 = state]
        ELSE [p EXCEPT !.dirty = FALSE, !.submit2 = state, !.submit = state,
                       !.submitButtonState = state]

\* The handler of the editor's change event.
change(p) ==
    LET state == IF Validates(p) THEN "enabled" ELSE "disabled"
    IN  [p EXCEPT !.dirty = FALSE, !.submitButtonState = state, !.submit2 = state,
                  !.submit = IF p.HELPACTIVATED THEN @ ELSE state]

\* The help button of the editor hides the buttons, and puts them back.
help(p) ==
    IF p.HELPACTIVATED
    THEN [p EXCEPT !.HELPACTIVATED = FALSE, !.submit = p.submitButtonState]
    ELSE [p EXCEPT !.HELPACTIVATED = TRUE, !.submit = "hidden"]

\* The help buttons of the menu and the canvas put the same classes back.
menuHelp(p) == [p EXCEPT !.HELPACTIVATED = ~@]

-----------------------------------------------------------------------------
(* Requests.  via names the XMLHttpRequest object; to open xhr or xhr2      *)
(* again aborts the request that it has.  An aborted request (gone) may    *)
(* have reached the server.  by is the schema of the editor (history).     *)

Request(kind, via, doc, name, by) ==
    [kind |-> kind, via |-> via, doc |-> doc, name |-> name, by |-> by, gone |-> FALSE]

Gets == {"fill", "draw", "schema"}

\* open() and send().
Sent(q, new) ==
    With([i \in DOMAIN q |-> [q[i] EXCEPT
             !.gone = @ \/ (new.via # "own" /\ q[i].via = new.via)]], new)

\* The page is left: what it asked for is lost, what it sent may arrive.
Left(q) ==
    [i \in {j \in DOMAIN q : q[j].kind \notin Gets} |-> [q[i] EXCEPT !.gone = TRUE]]

\* Every page starts with a GET: the canvas of the working copy, the editor
\* of its schema.
Opening(at, q) ==
    CASE at = "canvas" -> With(q, Request("draw", "own", Absent, NoName, Absent))
      [] at = "editor" -> With(q, Request("schema", "own", Absent, NoName, Absent))
      [] at = "menu" -> q

Goes(c, at, name, q) ==
    /\ pages' = [pages EXCEPT ![c] = Page(at, name)]
    /\ requests' = [requests EXCEPT ![c] = Opening(at, Left(q))]

Operation(c, at) ==
    /\ ops < MaxOps /\ ops' = ops + 1
    /\ Cardinality(DOMAIN requests[c]) < MaxRequests
    /\ pages[c].at = at

\* A write that may cross a submission, or follows it.
Crosses == submitted' = Absent

-----------------------------------------------------------------------------
(* The menu.  Its forms are answered by index(), which writes the working  *)
(* copy before it redirects to the canvas.                                 *)

indexNew(c) ==
    /\ Operation(c, "menu")
    /\ dummyFile' = Empty
    /\ Goes(c, "canvas", NoName, requests[c])
    /\ Crosses
    /\ UNCHANGED <<out, schema, writtenBy>>

indexEdit(c, name) ==
    /\ Operation(c, "menu") /\ out[name] # Absent
    /\ dummyFile' = out[name]
    /\ Goes(c, "canvas", name, requests[c])
    /\ Crosses
    /\ UNCHANGED <<out, schema, writtenBy>>

editPrevFile(c) ==
    /\ Operation(c, "menu")
    /\ Goes(c, "canvas", pages[c].name, requests[c])
    /\ UNCHANGED <<files, writtenBy, submitted>>

\* The request object is new at each click.
submitSchema(c, s) ==
    /\ Operation(c, "menu")
    /\ requests' = [requests EXCEPT ![c] = With(@, Request("selectSchema", "own", s, NoName, Absent))]
    /\ UNCHANGED <<pages, files, history>>

helpButton(c) ==
    /\ Operation(c, pages[c].at) /\ ~pages[c].asking
    /\ pages' = [pages EXCEPT ![c] = IF @.at = "editor" THEN help(@) ELSE menuHelp(@)]
    /\ UNCHANGED <<files, requests, history>>

menuButton(c) ==
    /\ pages[c].at # "menu" /\ ~pages[c].asking
    /\ Operation(c, pages[c].at)
    /\ Goes(c, "menu", pages[c].name, requests[c])
    /\ submitted' = IF requests[c] = NoRequests THEN submitted ELSE Absent
    /\ UNCHANGED <<files, writtenBy>>

-----------------------------------------------------------------------------
(* The canvas.                                                             *)

\* Some operation on the canvas stores the working copy.
canvasSave(c, doc) ==
    /\ Operation(c, "canvas")
    /\ requests' = [requests EXCEPT ![c] = With(@, Request("tempFile", "own", doc, NoName, Absent))]
    /\ pages' = [pages EXCEPT ![c].value = doc]
    /\ Crosses
    /\ UNCHANGED <<files, writtenBy>>

editJSON(c) ==
    /\ Operation(c, "canvas")
    /\ Goes(c, "editor", pages[c].name, requests[c])
    /\ UNCHANGED <<files, writtenBy, submitted>>

-----------------------------------------------------------------------------
(* The editor.                                                             *)

\* The user changes the document.
edit(c, doc) ==
    /\ Operation(c, "editor") /\ pages[c].ready /\ ~pages[c].asking
    /\ doc # pages[c].value
    /\ pages' = [pages EXCEPT ![c].value = doc, ![c].dirty = TRUE]
    /\ UNCHANGED <<files, requests, history>>

changeEvent(c) ==
    /\ pages[c].dirty
    /\ pages' = [pages EXCEPT ![c] = change(@)]
    /\ UNCHANGED <<files, requests, ops, history>>

\* Mutant: both documents are sent with xhr.
submit_helper_xhr(c) ==
    LET p == pages[c]
        temp == Sent(requests[c], Request("tempFile", "xhr", p.value, NoName, Absent))
    IN  /\ requests' = [requests EXCEPT ![c] =
             IF Validates(p) /\ p.name # NoName
             THEN Sent(temp, Request("outFile", "xhr", p.value, p.name, p.schema)) ELSE temp]
        /\ pages' = [pages EXCEPT ![c].asking = Validates(p) /\ p.name = NoName]

\* The working copy is stored in any case, the file if the document is
\* valid and has a name; one without is asked for.
submit_helper(c) ==
    LET p == pages[c]
        temp == Sent(requests[c], Request("tempFile", "xhr", p.value, NoName, Absent))
    IN  /\ requests' = [requests EXCEPT ![c] =
             IF Validates(p) /\ p.name # NoName
             THEN Sent(temp, Request("outFile", "xhr2", p.value, p.name, p.schema)) ELSE temp]
        /\ pages' = [pages EXCEPT ![c].asking = Validates(p) /\ p.name = NoName]

\* "Submit", or the one of the help.
submit(c) ==
    LET p == pages[c]
        alone == \A d \in Clients : requests[d] = NoRequests
    IN  /\ Operation(c, "editor") /\ p.ready /\ ~p.asking
        /\ (IF p.HELPACTIVATED THEN p.submit2 ELSE p.submit) # "disabled"
        /\ submit_helper(c)
        /\ submitted' = IF alone /\ Validates(p) /\ p.name # NoName
                        THEN [name |-> p.name, doc |-> p.value] ELSE Absent
        /\ UNCHANGED <<files, writtenBy>>

\* Mutant: no second validation.
Writes_unchecked(p) == TRUE

\* "Second validation after file (if needed) has been named".
Writes(p) == Validates(p)

\* "Write file": the page is left before the document is sent.
submitNewJSON(c, name) ==
    LET p == pages[c]
    IN  /\ Operation(c, "editor") /\ p.asking
        /\ IF Writes(p)
           THEN /\ Goes(c, "editor", name,
                        Sent(requests[c], [Request("outFile", "xhr", p.value, name, p.schema)
                                              EXCEPT !.gone = TRUE]))
                /\ Crosses
           ELSE UNCHANGED <<pages, requests, submitted>>
        /\ UNCHANGED <<files, writtenBy>>

closeName(c) ==
    /\ Operation(c, "editor") /\ pages[c].asking
    /\ pages' = [pages EXCEPT ![c].asking = FALSE]
    /\ UNCHANGED <<files, requests, history>>

\* "Whiteboard", a link to the canvas: the document is sent while the canvas
\* is being loaded, or not at all as long as the editor is not ready.
returnToCanvas(c) ==
    LET p == pages[c]
        temp == Request("tempFile", "xhr", p.value, NoName, Absent)
    IN  /\ Operation(c, "editor") /\ ~p.asking
        /\ Goes(c, "canvas", p.name, IF p.ready THEN Sent(requests[c], temp) ELSE requests[c])
        /\ Crosses
        /\ UNCHANGED <<files, writtenBy>>

-----------------------------------------------------------------------------
(* Requests are served.                                                    *)

Take(c, i) == requests' = [requests EXCEPT ![c] = Without(@, i)]

\* The editor has its schema: it becomes ready, which is a first change,
\* and asks for the working copy.
ready(c, i) ==
    /\ requests[c][i].kind = "schema"
    /\ pages' = [pages EXCEPT ![c].ready = TRUE, ![c].dirty = TRUE, ![c].schema = schema]
    /\ requests' = [requests EXCEPT ![c] =
          With(Without(@, i), Request("fill", "own", Absent, NoName, Absent))]
    /\ UNCHANGED <<files, ops, history>>

\* The server reads the working copy for an editor or a canvas.
dummyFileGet(c, i) ==
    /\ requests[c][i].kind \in {"fill", "draw"} /\ requests[c][i].doc = Absent
    /\ requests' = [requests EXCEPT ![c][i].doc = dummyFile]
    /\ UNCHANGED <<pages, files, ops, history>>

\* It reads the file while a POST truncates and writes it: what arrives is no
\* whole document, and neither page handles that.
GetFails(c, i) ==
    /\ requests[c][i].kind \in {"fill", "draw"} /\ requests[c][i].doc = Absent
    /\ \E d \in Clients : \E j \in DOMAIN requests[d] : requests[d][j].kind = "tempFile"
    /\ Take(c, i)
    /\ UNCHANGED <<pages, files, ops, history>>

\* The answer: jsoneditor.setValue, which is a change.
fill(c, i) ==
    /\ requests[c][i].kind = "fill" /\ requests[c][i].doc # Absent
    /\ pages' = [pages EXCEPT ![c].value = requests[c][i].doc, ![c].dirty = TRUE]
    /\ Take(c, i)
    /\ UNCHANGED <<files, ops, history>>

\* The answer: the canvas is drawn.
draw(c, i) ==
    /\ requests[c][i].kind = "draw" /\ requests[c][i].doc # Absent
    /\ pages' = [pages EXCEPT ![c].value = requests[c][i].doc]
    /\ Take(c, i)
    /\ UNCHANGED <<files, ops, history>>

\* editModule, by type.
tempFile(c, i) ==
    /\ requests[c][i].kind = "tempFile"
    /\ dummyFile' = requests[c][i].doc
    /\ Take(c, i)
    /\ UNCHANGED <<pages, out, schema, ops, history>>

outFile(c, i) ==
    LET r == requests[c][i]
    IN  /\ r.kind = "outFile"
        /\ out' = [out EXCEPT ![r.name] = r.doc]
        /\ writtenBy' = [writtenBy EXCEPT ![r.name] = r.by]
        /\ Take(c, i)
        /\ UNCHANGED <<pages, dummyFile, schema, ops, submitted>>

selectSchema(c, i) ==
    /\ requests[c][i].kind = "selectSchema"
    /\ schema' = requests[c][i].doc
    /\ Take(c, i)
    /\ UNCHANGED <<pages, dummyFile, out, ops, history>>

\* A request whose page or object has moved on has not reached the server.
Lost(c, i) ==
    /\ requests[c][i].gone
    /\ Take(c, i)
    /\ UNCHANGED <<pages, files, ops, history>>
-----------------------------------------------------------------------------

Init ==
    /\ pages = [c \in Clients |-> Page("menu", NoName)]
    /\ dummyFile \in Docs \ {Default}
    /\ out = InitialOut
    /\ schema \in Schemas
    /\ requests = [c \in Clients |-> NoRequests]
    /\ ops = 0
    /\ writtenBy = [n \in Names |-> Absent]
    /\ submitted = Absent

User(c) ==
    \/ indexNew(c)
    \/ \E name \in Names : indexEdit(c, name)
    \/ editPrevFile(c)
    \/ \E s \in Schemas : submitSchema(c, s)
    \/ helpButton(c)
    \/ menuButton(c)
    \/ \E doc \in Docs : canvasSave(c, doc)
    \/ editJSON(c)
    \/ \E doc \in Docs : edit(c, doc)
    \/ submit(c)
    \/ \E name \in Names : submitNewJSON(c, name)
    \/ closeName(c)
    \/ returnToCanvas(c)

Serve(c, i) ==
    \/ ready(c, i)
    \/ dummyFileGet(c, i)
    \/ GetFails(c, i)
    \/ fill(c, i)
    \/ draw(c, i)
    \/ tempFile(c, i)
    \/ outFile(c, i)
    \/ selectSchema(c, i)
    \/ Lost(c, i)

Next ==
    \E c \in Clients :
        \/ User(c)
        \/ changeEvent(c)
        \/ \E i \in DOMAIN requests[c] : Serve(c, i)

Spec == Init /\ [][Next]_vars

-----------------------------------------------------------------------------
(* Properties.                                                             *)

\* However help is switched on and off between changes of the document, and
\* whenever the schema and the document arrive: once its change events have
\* been handled an editor offers "Submit", with help or without, exactly
\* when its document is valid.
ButtonsAgree ==
    \A c \in Clients :
        LET p == pages[c]
            state == IF Validates(p) THEN "enabled" ELSE "disabled"
        IN  (p.at = "editor" /\ p.ready /\ ~p.dirty) =>
                /\ p.submit2 = state
                /\ p.submit = IF p.HELPACTIVATED THEN "hidden" ELSE state

\* No editor writes a document that its schema refuses into DAQ_CONFIG_DIR,
\* although the document may change (a late answer fills the editor) while
\* the user is asked for a name.
OutFilesValid ==
    \A n \in Names : writtenBy[n] # Absent => out[n] \in Valid[writtenBy[n]]

\* A submission writes two files with two requests.  If no other write
\* crosses it and the editor is not left meanwhile, then both files hold
\* the document once nothing is under way.
SubmitWritesBoth ==
    (submitted # Absent /\ \A c \in Clients : requests[c] = NoRequests) =>
        /\ dummyFile = submitted.doc
        /\ out[submitted.name] = submitted.doc
=============================================================================

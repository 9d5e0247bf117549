----------------------------- MODULE ControlGui -----------------------------
(***************************************************************************)
(* The control GUI: the pages in the browsers (scripts.js) and the server  *)
(* they share (ControlGUIServer.py).                                       *)
(*                                                                         *)
(* A configuration is controlled by one user at a time (whoInterlocked).   *)
(* A page learns who that is, and the states of the tree, in three ways    *)
(* that nothing orders: the answers to its own clicks, one snapshot that   *)
(* it asks for when its tree is drawn, and the events that the state       *)
(* checker broadcasts when its poll finds a difference.                    *)
(*                                                                         *)
(* Abstractions.  The log list, icons, grafana and kibana are left out, so *)
(* is the flag "inconsistent".  A node is its position in Tree[f], which   *)
(* is how jstree numbers it (j1_k).  The state of a node is the set of the *)
(* FSM states that getState returns.  A lease is fresh until the           *)
(* expiration time has passed.  A request without effect on the server is  *)
(* one step.  Every configuration has been opened before, so that its tree *)
(* is in sysConf and systemConfiguration leaves it as it is.               *)
(***************************************************************************)
EXTENDS Integers, Sequences, FiniteSets, Functions, Requests

CONSTANTS
    Clients,        \* pages (browser tabs)
    Assignments,    \* who may be logged in in which page
    Configs,        \* configurations
    InitialConfig,  \* the one that is shown first
    Tree,           \* Tree[f]: the names of the nodes of f, the root first
    StateSets,      \* the states a node may be in
    InitialState,   \* the first of them
    NotAdded,       \* the state of a node before the first snapshot
    Rules,          \* fsmrules: the commands of each FSM state
    None,           \* no user
    local_user,     \* the user of a server without SSO
    MaxOps,         \* bound on what users and environment do
    MaxRequests     \* bound on a page's requests in flight

Users == (UNION {{a[c] : c \in Clients} : a \in Assignments}) \cup {local_user}

ASSUME GuiAssumption ==
    /\ Assignments # {} /\ \A a \in Assignments : DOMAIN a = Clients
    /\ None \notin Users
    /\ \A f \in Configs : Tree[f] \in Seq(STRING) /\ Tree[f] # <<>> /\ IsInjective(Tree[f])
    /\ InitialConfig \in Configs /\ InitialState \in StateSets \ {NotAdded}
    /\ {MaxOps, MaxRequests} \subseteq Nat

VARIABLES
    usr,             \* the user of each page
    cookie,          \* session['configName'], which the browser holds
    whoInterlocked,  \* who controls each configuration
    fresh,           \* its lease has not expired
    tree,            \* the states of the nodes
    whoValue,        \* stateChecker: the holder at its last round
    l1,              \* stateChecker: the states at its last round
    pages,           \* the pages
    events,          \* events on the way to each page, in order
    requests,        \* requests of each page in flight, by number
    ops,             \* operations so far (bound)
    disturbed        \* history: pages that have missed or misordered news

server == <<whoInterlocked, fresh, tree>>
polling == <<whoValue, l1>>
vars == <<usr, cookie, server, polling, pages, events, requests, ops, disturbed>>

-----------------------------------------------------------------------------
(* A page and the functions that redraw it.                                *)

Nodes(f) == DOMAIN Tree[f]
InitialNode == [state |-> InitialState, included |-> TRUE]

\* What document.ready leaves.  No node is selected (0) and idList is empty
\* until the tree is there; boxes are the check boxes, controls says that
\* the buttons are enabled; selectednode is kept in sessionStorage.
Page(f, selectednode) ==
    [cfg |-> f, loaded |-> FALSE, fsmrules |-> FALSE, connected |-> TRUE,
     ownerFlag |-> 0, idList |-> <<>>, selected |-> 0, selectednode |-> selectednode,
     opened |-> FALSE, buttons |-> {}, controls |-> FALSE,
     boxes |-> [k \in Nodes(f) |-> "absent"]]

redrawLock(p) ==
    [p EXCEPT !.controls = (p.ownerFlag = 1),
              !.boxes = [k \in DOMAIN @ |-> IF @[k] = "absent" THEN "absent"
                                            ELSE IF p.ownerFlag = 1 THEN "enabled"
                                            ELSE "disabled"]]

\* A node that is shown gets a check box, which is enabled at first.
includeChecker(p) ==
    [p EXCEPT !.boxes = [k \in DOMAIN @ |->
        IF p.loaded /\ @[k] = "absent" /\ (k = 1 \/ p.opened) THEN "enabled" ELSE @[k]]]

\* The handler of changed.jstree stops at a TypeError when nothing is
\* selected.  The buttons are made anew for the state of the selected node.
changed(p) ==
    IF p.selected = 0 THEN p
    ELSE LET allowed == IF p.fsmrules
                        THEN UNION {Rules[s] : s \in p.idList[p.selected].state} ELSE {}
         IN  includeChecker(redrawLock([p EXCEPT !.buttons = allowed,
                                                 !.selectednode = p.selected]))

\* Mutant: the lock is redrawn before the new check boxes are there.
open_node_early(p) == includeChecker(redrawLock([p EXCEPT !.opened = TRUE]))

open_node(p) == redrawLock(includeChecker([p EXCEPT !.opened = TRUE]))

\* A list of states, by name, is copied into idList node by node; the copy
\* stops at a TypeError at the first name that the list does not have.
Known(p, list) == \A k \in DOMAIN p.idList : Tree[p.cfg][k] \in DOMAIN list
Copied(p, list) ==
    [k \in DOMAIN p.idList |->
        IF \A j \in 1..k : Tree[p.cfg][j] \in DOMAIN list
        THEN list[Tree[p.cfg][k]] ELSE p.idList[k]]

\* loaded.jstree.  select_node is told to suppress changed.jstree; for a
\* node below the root it opens the tree.
loaded(p) ==
    LET k == IF p.selectednode = 0 THEN 1
             ELSE IF p.selectednode \in Nodes(p.cfg) THEN p.selectednode ELSE 0
        q == [p EXCEPT !.loaded = TRUE, !.selected = k,
                       !.idList = [n \in Nodes(p.cfg) |->
                                      [state |-> NotAdded, included |-> TRUE]]]
    IN  includeChecker(IF k > 1 THEN open_node(q) ELSE q)

\* Mutant: changed.jstree is not triggered.
stsChng_quiet(p, list) == redrawLock([p EXCEPT !.idList = Copied(p, list)])

stsChng(p, list) == changed(redrawLock([p EXCEPT !.idList = Copied(p, list)]))

\* Mutant: the else branch is missing.
interlockChng_keep(p, user, who) ==
    redrawLock([p EXCEPT !.ownerFlag = IF who = user THEN 1 ELSE @])

interlockChng(p, user, who) ==
    redrawLock([p EXCEPT !.ownerFlag = IF who = user THEN 1 ELSE 0])

\* The answer to the GET of updateState, and its .done.
updateStateGet(p, user, who, list) ==
    LET q == [p EXCEPT !.ownerFlag = IF who = user THEN 1 ELSE 0,
                       !.idList = Copied(p, list)]
    IN  IF Known(p, list) /\ p.selected # 0 THEN redrawLock(changed(q)) ELSE q

\* The answer to the POST of updateState, and to a command.
updateStatePost(p) == changed(redrawLock(p))

\* Those to include and exclude only trigger changed.jstree.
commandDone(p, command) ==
    IF command \in {"include", "exclude"} THEN changed(p) ELSE updateStatePost(p)

\* The answer to a click on the lock.
lockAnswer(p, msg) ==
    redrawLock([p EXCEPT !.ownerFlag = CASE msg = "released" -> 0
                                         [] msg = "taken" -> 1
                                         [] msg = "refused" -> @])

-----------------------------------------------------------------------------
(* Requests.                                                               *)

\* Every request carries the cookie, and every answer sets it again
\* (session.modified), late ones too.
Request(kind, sess, arg) ==
    [kind |-> kind, sess |-> sess, arg |-> arg, stage |-> "sent", gone |-> FALSE]

\* One without effect on the server.
Done(kind, sess) == [Request(kind, sess, None) EXCEPT !.stage = "served"]

Send(c, new) == requests' = [requests EXCEPT ![c] = With(@, new)]

Served(c, i, arg) ==
    requests' = [requests EXCEPT ![c] =
        IF @[i].gone THEN Without(@, i) ELSE [@ EXCEPT ![i].stage = "served", ![i].arg = arg]]

\* Answers on the way that carry news of the holder.
News(c) == {i \in DOMAIN requests[c] : /\ requests[c][i].stage = "served"
                                      /\ requests[c][i].kind \in {"get", "lock"}}

On(f) == {c \in Clients : pages[c].cfg = f}

\* Mutant: the page draws itself anew instead of being reloaded, and the
\* answers on their way still reach it.
Kept_all(c) == requests[c]

\* Answers no longer reach a page that is reloaded, but a request that has
\* been sent may still be served.
Kept(c) ==
    [i \in {j \in DOMAIN requests[c] : /\ requests[c][j].stage # "served"
                                       /\ requests[c][j].kind # "get"} |->
        [requests[c][i] EXCEPT !.gone = TRUE]]

\* The page is loaded: document.ready asks for the tree and the FSM rules.
Opens(c, f) ==
    /\ pages' = [pages EXCEPT ![c] = Page(f, @.selectednode)]
    /\ events' = [events EXCEPT ![c] = <<>>]
    /\ requests' = [requests EXCEPT ![c] =
         With(With(Kept(c), Done("tree", f)), Done("fsm", f))]
    /\ disturbed' = disturbed \ {c}

-----------------------------------------------------------------------------
(* The users.                                                              *)

Counted == ops < MaxOps /\ ops' = ops + 1

Operation(c) ==
    /\ Counted
    /\ Cardinality({i \in DOMAIN requests[c] : requests[c][i].kind \notin {"tree", "fsm", "get", "post"}})
         < MaxRequests

\* The lock is an anchor: that the page disables it has no effect.
clickLock(c) ==
    /\ Operation(c)
    /\ Send(c, Request("lock", cookie[usr[c]], None))
    /\ UNCHANGED <<usr, cookie, server, polling, pages, events, disturbed>>

Command(c, k, command) ==
    /\ Operation(c)
    /\ Send(c, Request("comm", cookie[usr[c]], [node |-> Tree[pages[c].cfg][k],
                                                command |-> command]))
    /\ UNCHANGED <<usr, cookie, server, polling, pages, events, disturbed>>

\* A button: it is still there, and enabled, after the click.
sendComm(c, command) ==
    /\ pages[c].controls /\ command \in pages[c].buttons
    /\ Command(c, pages[c].selected, command)

\* A check box does what idList said when it was drawn.
include(c, k) ==
    /\ pages[c].boxes[k] = "enabled" /\ ~pages[c].idList[k].included
    /\ Command(c, k, "include")

exclude(c, k) ==
    /\ pages[c].boxes[k] = "enabled" /\ pages[c].idList[k].included
    /\ Command(c, k, "exclude")

selectNode(c, k) ==
    /\ Operation(c) /\ pages[c].loaded /\ k # pages[c].selected
    /\ k = 1 \/ pages[c].opened
    /\ pages' = [pages EXCEPT ![c] = changed([@ EXCEPT !.selected = k])]
    /\ UNCHANGED <<usr, cookie, server, polling, events, requests, disturbed>>

openNode(c) ==
    /\ Operation(c) /\ pages[c].loaded /\ ~pages[c].opened
    /\ pages' = [pages EXCEPT ![c] = open_node(@)]
    /\ UNCHANGED <<usr, cookie, server, polling, events, requests, disturbed>>

\* A click in the menu of the configurations (updateConfigs).
updateConfigs(c, f) ==
    /\ Operation(c) /\ f # pages[c].cfg
    /\ Send(c, Request("config", cookie[usr[c]], f))
    /\ UNCHANGED <<usr, cookie, server, polling, pages, events, disturbed>>

Reload(c) ==
    /\ Operation(c)
    /\ Opens(c, cookie[usr[c]])
    /\ UNCHANGED <<usr, cookie, server, polling>>

-----------------------------------------------------------------------------
(* The server's handlers.                                                  *)

\* A change that takes the holder back to the one broadcast last before the
\* next round of the checker is never broadcast.
Reassign(f, who) ==
    /\ whoInterlocked' = [whoInterlocked EXCEPT ![f] = who]
    /\ disturbed' = IF who # whoInterlocked[f] /\ who = whoValue[f]
                    THEN disturbed \cup On(f) ELSE disturbed

\* interlock() looks at the holder ...
interlock(c, i) ==
    LET r == requests[c][i]
        f == r.sess
    IN  /\ r.kind = "lock" /\ r.stage = "sent"
        /\ \/ /\ whoInterlocked[f] = None
              /\ requests' = [requests EXCEPT ![c][i].stage = "free"]
              /\ UNCHANGED <<whoInterlocked, disturbed>>
           \/ /\ whoInterlocked[f] = usr[c]
              /\ Reassign(f, None)
              /\ Served(c, i, "released")
           \/ /\ whoInterlocked[f] \notin {None, usr[c]}
              /\ Served(c, i, "refused")
              /\ UNCHANGED <<whoInterlocked, disturbed>>
        /\ UNCHANGED <<usr, cookie, fresh, tree, polling, pages, events, ops>>

\* ... and takes control, if nobody had it then.
interlockTake(c, i) ==
    LET f == requests[c][i].sess
    IN  /\ requests[c][i].stage = "free"
        /\ Reassign(f, usr[c])
        /\ fresh' = [fresh EXCEPT ![f] = TRUE]
        /\ Served(c, i, "taken")
        /\ UNCHANGED <<usr, cookie, tree, polling, pages, events, ops>>

\* The states as getStatesList returns them.
getStatesList(f) ==
    [n \in Range(Tree[f]) |-> tree[f][CHOOSE k \in Nodes(f) : Tree[f][k] = n]]

\* A node of f changes; back to what was broadcast, and no page is told.
Becomes(f, new) ==
    /\ tree' = [tree EXCEPT ![f] = new]
    /\ disturbed' = IF new # tree[f] /\ new = l1[f] THEN disturbed \cup On(f) ELSE disturbed

\* ajaxParse and executeComm: the lease is renewed and the command executed
\* whoever sent it.  A name that the tree does not have is an exception; an
\* action may change the state of its node.
ajaxParse(c, i) ==
    LET r == requests[c][i]
        f == r.sess
    IN  /\ r.kind = "comm" /\ r.stage = "sent"
        /\ fresh' = [fresh EXCEPT ![f] = TRUE]
        /\ \/ /\ r.arg.node \notin Range(Tree[f])
              /\ UNCHANGED <<tree, disturbed>>
           \/ /\ r.arg.node \in Range(Tree[f])
              /\ \E k \in Nodes(f), s \in StateSets :
                    /\ Tree[f][k] = r.arg.node
                    /\ Becomes(f, CASE r.arg.command = "include" -> [tree[f] EXCEPT ![k].included = TRUE]
                                    [] r.arg.command = "exclude" -> [tree[f] EXCEPT ![k].included = FALSE]
                                    [] OTHER -> [tree[f] EXCEPT ![k].state = s])
        /\ Served(c, i, r.arg)
        /\ UNCHANGED <<usr, cookie, whoInterlocked, polling, pages, events, ops>>

statesList(c, i) ==
    LET r == requests[c][i]
    IN  /\ r.kind = "get" /\ r.stage = "sent"
        /\ Served(c, i, [who |-> whoInterlocked[r.sess], list |-> getStatesList(r.sess)])
        /\ UNCHANGED <<usr, cookie, server, polling, pages, events, ops, disturbed>>

\* The session of the answer names the new configuration.
configsJson(c, i) ==
    /\ requests[c][i].kind = "config" /\ requests[c][i].stage = "sent"
    /\ requests' = [requests EXCEPT ![c] =
         IF @[i].gone THEN Without(@, i)
         ELSE [@ EXCEPT ![i].stage = "served", ![i].sess = requests[c][i].arg]]
    /\ UNCHANGED <<usr, cookie, server, polling, pages, events, ops, disturbed>>

\* A request of a page that is gone has not reached the server.
Aborted(c, i) ==
    /\ requests[c][i].gone
    /\ requests[c][i].stage = "sent"
    /\ requests' = [requests EXCEPT ![c] = Without(@, i)]
    /\ UNCHANGED <<usr, cookie, server, polling, pages, events, ops, disturbed>>

-----------------------------------------------------------------------------
(* stateChecker.                                                           *)

Expired(f) == whoInterlocked[f] \notin {None, local_user} /\ ~fresh[f]

\* One round for f: the lease, the holder, the states.  interlockChng goes
\* to the pages of every configuration.  The round reads the holder twice,
\* to compare it with the last one and to remember it: a holder that comes
\* in between is remembered without being broadcast (seen = whoValue[f]).
\* Rounds without a difference change nothing.
stateChecker(f, seen) ==
    LET holder == IF Expired(f) THEN None ELSE whoInterlocked[f]
        locks == IF seen = whoValue[f] THEN <<>>
                 ELSE <<[name |-> "interlockChng", f |-> f, d |-> holder]>>
        states == IF l1[f] = tree[f] THEN <<>>
                  ELSE <<[name |-> "stsChng", f |-> f, d |-> getStatesList(f)]>>
    IN  /\ seen \in {holder, whoValue[f]}
        /\ whoInterlocked' = [whoInterlocked EXCEPT ![f] = holder]
        /\ whoValue' = [whoValue EXCEPT ![f] = holder]
        /\ l1' = [l1 EXCEPT ![f] = tree[f]]
        /\ events' = [c \in Clients |->
              events[c] \o IF ~pages[c].connected THEN <<>>
                           ELSE locks \o (IF c \in On(f) THEN states ELSE <<>>)]
        /\ disturbed' = disturbed
             \cup {c \in Clients : ~pages[c].connected /\ locks # <<>>}
             \cup {c \in On(f) : ~pages[c].connected /\ states # <<>>}
             \cup (IF seen # holder \/ (Expired(f) /\ holder = whoValue[f])
                   THEN On(f) ELSE {})
        /\ UNCHANGED <<usr, cookie, fresh, tree, pages, requests, ops>>

\* The expiration time passes without a command.
LeaseRunsOut(f) ==
    /\ Counted
    /\ fresh[f]
    /\ fresh' = [fresh EXCEPT ![f] = FALSE]
    /\ UNCHANGED <<usr, cookie, whoInterlocked, tree, polling, pages, events,
                   requests, disturbed>>

\* A process of the tree changes its state by itself.
StateChanges(f, k, s) ==
    /\ Counted
    /\ s # tree[f][k].state
    /\ Becomes(f, [tree[f] EXCEPT ![k].state = s])
    /\ UNCHANGED <<usr, cookie, whoInterlocked, fresh, polling, pages, events,
                   requests>>

-----------------------------------------------------------------------------
(* Events and answers reach the pages.                                     *)

\* Older news that is still on its way will overwrite what the event says.
HandleEvent(c) ==
    LET e == Head(events[c])
    IN  /\ events[c] # <<>>
        /\ events' = [events EXCEPT ![c] = Tail(@)]
        /\ pages' = [pages EXCEPT ![c] =
             IF e.name = "stsChng" THEN stsChng(@, e.d) ELSE interlockChng(@, usr[c], e.d)]
        /\ disturbed' = IF News(c) # {} \/ e.f # pages[c].cfg
                        THEN disturbed \cup {c} ELSE disturbed
        /\ UNCHANGED <<usr, cookie, server, polling, requests, ops>>

\* An answer arrives: its session becomes the cookie, and its callback runs.
Answer(c, i) ==
    LET r == requests[c][i]
        rest == Without(requests[c], i)
        mixed == r.kind \in {"get", "lock"} /\ (News(c) # {i} \/ r.sess # pages[c].cfg)
    IN  /\ r.stage = "served"
        /\ cookie' = [cookie EXCEPT ![usr[c]] = r.sess]
        /\ \/ /\ r.kind = "config"      \* window.location.reload()
              /\ Opens(c, r.sess)
           \/ /\ r.kind # "config"
              /\ pages' = [pages EXCEPT ![c] =
                   CASE r.kind = "tree" -> loaded(@)
                     [] r.kind = "fsm" -> [@ EXCEPT !.fsmrules = TRUE]
                     [] r.kind = "post" -> updateStatePost(@)
                     [] r.kind = "comm" -> commandDone(@, r.arg.command)
                     [] r.kind = "get" -> updateStateGet(@, usr[c], r.arg.who, r.arg.list)
                     [] r.kind = "lock" -> lockAnswer(@, r.arg)]
              /\ requests' = [requests EXCEPT ![c] =
                   IF r.kind = "tree"
                   THEN With(With(rest, Done("post", r.sess)), Request("get", r.sess, None))
                   ELSE rest]
              /\ disturbed' = IF mixed THEN disturbed \cup {c} ELSE disturbed
              /\ UNCHANGED events
        /\ UNCHANGED <<usr, server, polling, ops>>

\* The socket loses its connection, with the events on it, and connects
\* again: the handler of connect asks for nothing.
Disconnect(c) ==
    /\ Counted
    /\ pages[c].connected
    /\ pages' = [pages EXCEPT ![c].connected = FALSE]
    /\ events' = [events EXCEPT ![c] = <<>>]
    /\ disturbed' = IF events[c] # <<>> THEN disturbed \cup {c} ELSE disturbed
    /\ UNCHANGED <<usr, cookie, server, polling, requests>>

Reconnect(c) ==
    /\ ~pages[c].connected
    /\ pages' = [pages EXCEPT ![c].connected = TRUE]
    /\ UNCHANGED <<usr, cookie, server, polling, events, requests, ops, disturbed>>

-----------------------------------------------------------------------------

\* A page that has been loaded while nobody is in control.
Ready(f) ==
    updateStateGet(updateStatePost([loaded(Page(f, 0)) EXCEPT !.fsmrules = TRUE]),
                   local_user, None, [n \in Range(Tree[f]) |-> InitialNode])

\* The pages show the same configuration; nobody is in control.
Init ==
    /\ usr \in Assignments
    /\ cookie = [u \in Users |-> InitialConfig]
    /\ whoInterlocked = [f \in Configs |-> None]
    /\ fresh = [f \in Configs |-> FALSE]
    /\ tree = [f \in Configs |-> [k \in Nodes(f) |-> InitialNode]]
    /\ whoValue = whoInterlocked
    /\ l1 = tree
    /\ pages = [c \in Clients |-> Ready(InitialConfig)]
    /\ events = [c \in Clients |-> <<>>]
    /\ requests = [c \in Clients |-> NoRequests]
    /\ ops = 0
    /\ disturbed = {}

User(c) ==
    \/ clickLock(c)
    \/ \E command \in pages[c].buttons : sendComm(c, command)
    \/ \E k \in DOMAIN pages[c].idList : include(c, k)
    \/ \E k \in DOMAIN pages[c].idList : exclude(c, k)
    \/ \E k \in DOMAIN pages[c].idList : selectNode(c, k)
    \/ openNode(c)
    \/ \E f \in Configs : updateConfigs(c, f)
    \/ Reload(c)
    \/ Disconnect(c)

Serve(c, i) ==
    \/ interlock(c, i)
    \/ interlockTake(c, i)
    \/ ajaxParse(c, i)
    \/ statesList(c, i)
    \/ configsJson(c, i)

Next ==
    \/ \E c \in Clients : User(c)
    \/ \E c \in Clients : \E i \in DOMAIN requests[c] : Serve(c, i)
    \/ \E c \in Clients : \E i \in DOMAIN requests[c] : Aborted(c, i)
    \/ \E c \in Clients : \E i \in DOMAIN requests[c] : Answer(c, i)
    \/ \E c \in Clients : HandleEvent(c)
    \/ \E c \in Clients : Reconnect(c)
    \/ \E f \in Configs : \E seen \in Users \cup {None} : stateChecker(f, seen)
    \/ \E f \in Configs : LeaseRunsOut(f)
    \/ \E f \in Configs : \E k \in Nodes(f), s \in StateSets : StateChanges(f, k, s)

Spec == Init /\ [][Next]_vars

-----------------------------------------------------------------------------
(* Properties.                                                             *)

\* Nothing is on its way to the page, and the checker has nothing to tell.
Settled(c) ==
    /\ requests[c] = NoRequests /\ events[c] = <<>>
    /\ whoValue[pages[c].cfg] = whoInterlocked[pages[c].cfg]
    /\ l1[pages[c].cfg] = tree[pages[c].cfg]

FlagRight(c) ==
    (pages[c].ownerFlag = 1) <=> (whoInterlocked[pages[c].cfg] = usr[c])

\* The page believes that it is in control exactly when its user is, once
\* everything has been delivered.  The exceptions are the ones that
\* "disturbed" collects: news lost with a connection, an answer overtaken
\* by an event or by another answer, news about another configuration, and
\* a change of the holder that the checker never sees.
FlagIsRight == \A c \in Clients \ disturbed : Settled(c) => FlagRight(c)

\* Under the same conditions the page shows the states of the tree, and a
\* button only for a command that the FSM allows in the state of its node.
ViewIsRight ==
    \A c \in Clients \ disturbed :
        LET p == pages[c]
        IN  Settled(c) =>
                /\ p.idList = tree[p.cfg]
                /\ p.selected # 0 =>
                     p.buttons \subseteq UNION {Rules[s] : s \in tree[p.cfg][p.selected].state}

\* A page that is not in control offers no control: after the answer to its
\* first POST every enabled button or check box belongs to a page with
\* ownerFlag 1, whatever else it has missed.
ControlsFollowFlag ==
    \A c \in Clients :
        LET p == pages[c]
            first == \E i \in DOMAIN requests[c] : requests[c][i].kind = "post"
        IN  (p.loaded /\ ~first /\ p.selected # 0 /\ p.ownerFlag = 0) =>
                /\ ~p.controls
                /\ \A k \in DOMAIN p.boxes : p.boxes[k] # "enabled"

\* A user with a single page acts on the configuration that the page shows:
\* the session of the browser is the page's, and so is that of every request
\* that the page has made, although each answer rewrites the session, those
\* that come late from before a switch of configuration too.
OnePageOneConfig ==
    \A c \in Clients :
        (\A d \in Clients \ {c} : usr[d] # usr[c]) =>
            /\ cookie[usr[c]] = pages[c].cfg
            /\ \A i \in DOMAIN requests[c] :
                  requests[c][i].gone \/ requests[c][i].kind = "config"
                      \/ requests[c][i].sess = pages[c].cfg
=============================================================================

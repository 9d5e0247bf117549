---------------------------- MODULE CommandReply ----------------------------
(***************************************************************************)
(* What a process tells the control system: the overall state computed by  *)
(* ModuleManager::getStatesAsString from the statuses of its modules, and  *)
(* the reply that Command::mergeCommandResponses makes of the replies of   *)
(* two operations (unconfigure and unload, stop and unconfigure).          *)
(***************************************************************************)
EXTENDS Naturals, Sequences, SequencesExt

CONSTANTS
    Names,       \* module names
    Statuses,    \* statuses of modules, "booted" among them
    MaxModules   \* bound on the number of modules in a process

ASSUME ReplyAssumption ==
    /\ "booted" \in Statuses /\ "inconsistent" \notin Statuses
    /\ MaxModules \in Nat

VARIABLES
    statuses,   \* m_module_status in the iteration order of m_modloaders
    first,      \* the reply of the first operation
    second,     \* the reply of the second operation
    overall,    \* the overall state, or "none" before it is computed
    merged      \* the merged reply

replyVars == <<statuses, first, second, overall, merged>>

-----------------------------------------------------------------------------
(* ModuleManager::getStatesAsString.                                       *)

(* Mutant: "booted" modules are overlooked wherever they are. *)
Scan_SkipBooted(acc, item) ==
    IF acc.state = "inconsistent" \/ item = acc.state \/ item = "booted" THEN acc
    ELSE IF acc.first THEN [state |-> item, first |-> FALSE]
    ELSE [acc EXCEPT !.state = "inconsistent"]

(* The body of the loop; the break is the absorbing "inconsistent". *)
Scan(acc, item) ==
    IF acc.state = "inconsistent" \/ item = acc.state THEN acc
    ELSE IF acc.first THEN [state |-> item, first |-> FALSE]
    ELSE [acc EXCEPT !.state = "inconsistent"]

(* What the loop has after each number of modules. *)
Scans(seq) ==
    LET scan[n \in 0..Len(seq)] ==
            IF n = 0 THEN [state |-> "booted", first |-> TRUE] ELSE Scan(scan[n - 1], seq[n])
    IN  scan

GetStatesAsString(seq) == Scans(seq)[Len(seq)].state

-----------------------------------------------------------------------------
(***************************************************************************)
(* Replies.  "text" tells whether the "response" is other than "".  The    *)
(* default-constructed json of an operation that was not needed is empty.  *)
(***************************************************************************)
Outcome == [status : {"Success", "Error", "FatalError"}, text : BOOLEAN]
Response == [status : {"Success", "Error", "FatalError"}, text : BOOLEAN,
          modules : UNION {[S -> Outcome] : S \in SUBSET Names}]
EmptyReply == [status |-> "empty"]
MergeError == [status |-> "Error", text |-> TRUE]

Rank(s) == CASE s = "Success" -> 0 [] s = "Error" -> 1 [] s = "FatalError" -> 2

(* Mutant: the severities are compared the wrong way round. *)
MergeOutcome_Least(a, b) ==
    IF Rank(a.status) < Rank(b.status) THEN a
    ELSE IF Rank(b.status) < Rank(a.status) THEN b
    ELSE IF ~a.text THEN b ELSE IF ~b.text THEN a ELSE MergeError

(* compare_by_status and the switch on its result. *)
MergeOutcome(a, b) ==
    IF Rank(a.status) > Rank(b.status) THEN a
    ELSE IF Rank(b.status) > Rank(a.status) THEN b
    ELSE IF ~a.text THEN b ELSE IF ~b.text THEN a ELSE MergeError

(* modules_error: two texts of the same severity meet in some module. *)
Clash(r1, r2) ==
    \E n \in DOMAIN r1.modules \cap DOMAIN r2.modules :
        LET a == r1.modules[n]
            b == r2.modules[n]
        IN  a.status = b.status /\ a.text /\ b.text

MergeModules(r1, r2) ==
    [n \in DOMAIN r1.modules \cup DOMAIN r2.modules |->
        IF n \notin DOMAIN r2.modules THEN r1.modules[n]
        ELSE IF n \notin DOMAIN r1.modules THEN r2.modules[n]
        ELSE MergeOutcome(r1.modules[n], r2.modules[n])]

MergeCommandResponses(r1, r2) ==
    IF r1 = EmptyReply THEN r2
    ELSE IF r2 = EmptyReply THEN r1
    ELSE LET o == IF Clash(r1, r2) THEN MergeError
                  ELSE MergeOutcome([status |-> r1.status, text |-> r1.text],
                                    [status |-> r2.status, text |-> r2.text])
         IN  [status |-> o.status, text |-> o.text, modules |-> MergeModules(r1, r2)]

-----------------------------------------------------------------------------
(* One state of a process and one pair of replies at a time.               *)

NoReply == [status |-> "none"]

ReplyInit ==
    /\ statuses \in SeqOf(Statuses, MaxModules)
    /\ overall = "none"
    /\ first \in Response \cup {EmptyReply}
    /\ second \in Response \cup {EmptyReply}
    /\ merged = NoReply
    /\ statuses = <<>> \/ (first = EmptyReply /\ second = EmptyReply)

(* getIndividualStates, the answer to the command "status". *)
Report ==
    /\ overall = "none"
    /\ overall' = GetStatesAsString(statuses)
    /\ UNCHANGED <<statuses, first, second, merged>>

Merge ==
    /\ merged = NoReply
    /\ merged' = MergeCommandResponses(first, second)
    /\ UNCHANGED <<statuses, first, second, overall>>

ReplyNext == Report \/ Merge

ReplySpec == ReplyInit /\ [][ReplyNext]_replyVars

-----------------------------------------------------------------------------
(* Properties.                                                             *)

AllAre(s, from) == \A i \in DOMAIN statuses : i >= from => statuses[i] = s

(***************************************************************************)
(* What the scan computes, as a definition without a scan: "booted" exactly*)
(* when every module is booted, which is what configure and down rely on;  *)
(* a status s exactly when the modules after a prefix of booted ones are   *)
(* all in s; otherwise "inconsistent".                                     *)
(***************************************************************************)
OverallIsRight ==
    overall # "none" =>
        /\ overall = "booted" <=> AllAre("booted", 1)
        /\ \A s \in Statuses \ {"booted"} : overall = s <=>
              \E i \in DOMAIN statuses :
                  /\ AllAre(s, i)
                  /\ \A j \in 1..(i - 1) : statuses[j] = "booted"

Replies == {r \in {first, second} : r # EmptyReply}

(***************************************************************************)
(* No failure is lost by the merge, neither the overall one nor that of a  *)
(* module, none is invented unless two texts clash, and every module of    *)
(* either reply is in the merged one.                                      *)
(***************************************************************************)
NoErrorLost ==
    merged # NoReply /\ Replies # {} =>
        /\ (\E r \in Replies : r.status # "Success") => merged.status # "Success"
        /\ DOMAIN merged.modules = UNION {DOMAIN r.modules : r \in Replies}
        /\ \A r \in Replies : \A n \in DOMAIN r.modules :
              r.modules[n].status # "Success" => merged.modules[n].status # "Success"
        /\ \A n \in DOMAIN merged.modules :
              merged.modules[n].status # "Success" =>
                  \E r \in Replies : n \in DOMAIN r.modules /\
                      (r.modules[n].status # "Success" \/ r.modules[n].text)
=============================================================================

---------------------------- MODULE PolicyReload ----------------------------
(***************************************************************************)
(* Hot reload of policies.yaml by its two readers: the hook's              *)
(* PoliciesHolder (session_router/config.py), which stats the file and     *)
(* then loads it, and classifier-svc (classifier_svc/app.py), which loads  *)
(* it and then stats it, and serves nothing until a warmup classification  *)
(* has succeeded.  An operator edits the file meanwhile.                   *)
(*                                                                         *)
(* Versions of the file are numbered; every edit makes a new one and a new *)
(* mtime, so a version also stands for its mtime.  The intervals between   *)
(* checks are left out: a check may come at any moment.                    *)
(***************************************************************************)
EXTENDS Naturals

CONSTANTS
    MaxEdits,         \* bound: versions of the file
    Broken            \* the versions that do not parse or validate

\* Both readers refuse to start on a broken file.
ASSUME ReloadAssumption ==
    /\ MaxEdits \in Nat \ {0}
    /\ Broken \subseteq 2..MaxEdits

Versions == 1..MaxEdits
None == 0

VARIABLES
    file,             \* the version on disk
    readable,         \* whether stat and open succeed
    hook,             \* PoliciesHolder: what it serves, the mtime it keeps, the mtime it saw
    svc               \* classifier-svc: what it serves, the mtime it keeps, whether it is up

vars == <<file, readable, hook, svc>>

\* Only a version that validates is ever served.
Served == (Versions \ Broken) \cup {None}

TypeOK ==
    /\ file \in Versions
    /\ readable \in BOOLEAN
    /\ hook \in [policies : Served, mtime : Versions \cup {None}, seen : Versions \cup {None},
                 step : {"idle", "load"}]
    /\ svc \in [policies : Served, mtime : Versions \cup {None}, ready : BOOLEAN,
                step : {"idle", "load", "stat", "warmup"}]

\* classifier-svc as its lifespan begins.
Starting == [policies |-> None, mtime |-> None, ready |-> FALSE, step |-> "load"]

Init ==
    /\ file = 1
    /\ readable = TRUE
    /\ hook = [policies |-> None, mtime |-> None, seen |-> None, step |-> "idle"]
    /\ svc = Starting

Loadable == readable /\ file \notin Broken

-----------------------------------------------------------------------------
\* Mutant of HookStat: the new mtime is kept before the file is loaded.
HookStat_KeepsFirst ==
    /\ hook.step = "idle"
    /\ readable
    /\ hook.policies = None \/ file # hook.mtime
    /\ hook' = [hook EXCEPT !.seen = file, !.mtime = file, !.step = "load"]
    /\ UNCHANGED <<file, readable, svc>>

\* PoliciesHolder.get past its interval: a new mtime, or nothing loaded yet, is a reason
\* to load.  When stat fails, what is loaded is kept (or the request fails open).
HookStat ==
    /\ hook.step = "idle"
    /\ readable
    /\ hook.policies = None \/ file # hook.mtime
    /\ hook' = [hook EXCEPT !.seen = file, !.step = "load"]
    /\ UNCHANGED <<file, readable, svc>>

\* Mutant of HookLoad: what the file holds is not validated.
HookLoad_Unchecked ==
    /\ hook.step = "load"
    /\ hook' = [policies |-> file, mtime |-> hook.seen, seen |-> None, step |-> "idle"]
    /\ UNCHANGED <<file, readable, svc>>

\* The load keeps the mtime seen before it; a load that fails changes nothing.
HookLoad ==
    /\ hook.step = "load"
    /\ hook' = IF Loadable
               THEN [policies |-> file, mtime |-> hook.seen, seen |-> None, step |-> "idle"]
               ELSE [hook EXCEPT !.seen = None, !.step = "idle"]
    /\ UNCHANGED <<file, readable, svc>>

-----------------------------------------------------------------------------
\* The service takes requests, and its watcher runs, once the lifespan is through.
SvcUp == svc.ready /\ svc.step = "idle"

\* _watch_policies: the mtime on disk is not the one kept.
SvcWatch ==
    /\ SvcUp
    /\ readable /\ file # svc.mtime
    /\ svc' = [svc EXCEPT !.step = "load"]
    /\ UNCHANGED <<file, readable, hook>>

\* POST /reload: load whether the mtime moved or not.
SvcReload ==
    /\ SvcUp
    /\ svc' = [svc EXCEPT !.step = "load"]
    /\ UNCHANGED <<file, readable, hook>>

\* Mutant of SvcLoad: a version that cannot be loaded is not tried again.
SvcLoad_GivesUp ==
    /\ svc.step = "load"
    /\ svc' = IF Loadable THEN [svc EXCEPT !.policies = file, !.step = "stat"]
              ELSE IF svc.ready THEN [svc EXCEPT !.mtime = file, !.step = "idle"] ELSE Starting
    /\ UNCHANGED <<file, readable, hook>>

\* _load_policies, first half: a load that fails changes nothing, except that a service
\* which is starting gives up, and is started again.
SvcLoad ==
    /\ svc.step = "load"
    /\ svc' = IF Loadable THEN [svc EXCEPT !.policies = file, !.step = "stat"]
              ELSE IF svc.ready THEN [svc EXCEPT !.step = "idle"] ELSE Starting
    /\ UNCHANGED <<file, readable, hook>>

\* _load_policies, second half: the mtime is that of the file as it is by now; when stat
\* fails the old one is kept.
SvcStat ==
    /\ svc.step = "stat"
    /\ svc' = IF readable
              THEN [svc EXCEPT !.mtime = file, !.step = IF svc.ready THEN "idle" ELSE "warmup"]
              ELSE IF svc.ready THEN [svc EXCEPT !.step = "idle"] ELSE Starting
    /\ UNCHANGED <<file, readable, hook>>

\* A warmup classification succeeds; one that fails is tried again after a pause.
SvcWarmup ==
    /\ svc.step = "warmup"
    /\ svc' = [svc EXCEPT !.ready = TRUE, !.step = "idle"]
    /\ UNCHANGED <<file, readable, hook>>

-----------------------------------------------------------------------------
Edit ==
    /\ file < MaxEdits
    /\ file' = file + 1
    /\ UNCHANGED <<readable, hook, svc>>

\* The file is moved away and back, or cannot be opened for a while.
Flicker ==
    /\ readable' = ~readable
    /\ UNCHANGED <<file, hook, svc>>

Next ==
    \/ HookStat \/ HookLoad
    \/ SvcWatch \/ SvcReload \/ SvcLoad \/ SvcStat \/ SvcWarmup
    \/ Edit \/ Flicker

Spec == Init /\ [][Next]_vars

\* The hook checks as long as requests come; the watcher is a loop of its own; both finish
\* what they begin, and some warmup succeeds.
ReadersAreFair ==
    /\ WF_vars(HookStat) /\ WF_vars(HookLoad)
    /\ WF_vars(SvcWatch) /\ WF_vars(SvcLoad) /\ WF_vars(SvcStat) /\ WF_vars(SvcWarmup)

-----------------------------------------------------------------------------
(***************************************************************************)
(* Properties.                                                             *)
(***************************************************************************)

\* config.py:69-72: the mtime the hook keeps is never newer than what it serves: when it
\* equals the one on disk, the file has been loaded, so a stale copy is always noticed.
StaleIsNoticed == hook.mtime = file => hook.policies = file

\* Edits end (they are bounded), and the last one is readable and valid.
EditsSettle == <>[]Loadable

\* README.md:183-184, "it hot-reloads": once the edits are over the hook serves the file,
\* whatever it met halfway: broken versions, failed reads, edits during a load.
HookHotReloads == EditsSettle => <>[](hook.policies = file)

\* The same of classifier-svc, whose watcher is never told to reload, provided no edit
\* falls between its load and its stat (app.py:53-54): such an edit goes unnoticed.
SvcHotReloads ==
    EditsSettle /\ [](svc.step = "stat" => svc.policies = file) => <>[](svc.policies = file)
=============================================================================

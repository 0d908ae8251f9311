--------------------------- MODULE ReloadingRouter ---------------------------
(***************************************************************************)
(* Requests that are routed while policies.yaml is being edited.  A        *)
(* request reads the policies three times: when it begins (hook.py:93),    *)
(* when classifier-svc takes its question (app.py:128) and when the answer *)
(* is back (classifier_client.py:45); each may see another version, and so *)
(* may the record in Redis, which names its tier and was written under the *)
(* policies of another day.                                                *)
(*                                                                         *)
(* Here one request runs at a time, against a Redis that works: the        *)
(* interleavings and faults of requests are SessionRouter's, under one     *)
(* version.  A tier is its name, since its place in the ladder may change. *)
(*                                                                         *)
(* The prefix of Redis keys and the TTL are read once more, at each        *)
(* command (session_store.py:26).  `session` is what the prefix in force   *)
(* shows: under a new prefix nothing is found, which is Forget, and it may *)
(* fall between the read of a record and its write.  That an old prefix    *)
(* comes back, with its records, is left out.                              *)
(***************************************************************************)
EXTENDS PolicyReload, Sequences

CONSTANTS
    TierNames,        \* the names tiers may have
    Models,           \* model ids
    Policies          \* version -> what it says: tiers, default, force, cap

\* PoliciesConfig._validate, for the versions that pass it.
ASSUME PoliciesAssumption ==
    \A v \in Versions \ Broken :
        LET tiers == Policies[v].tiers
        IN  /\ tiers \in Seq([name : TierNames, model : Models]) /\ Len(tiers) > 0
            /\ Policies[v].default \in Models
            /\ \A i, j \in 1..Len(tiers) : tiers[i].name = tiers[j].name => i = j
            /\ \E i \in 1..Len(tiers) : tiers[i].name = Policies[v].force
            /\ Policies[v].cap \in Nat

Tiers(v) == Policies[v].tiers
Positions(v) == 1..Len(Tiers(v))
Names(v) == {Tiers(v)[i].name : i \in Positions(v)}

TierIndex(v, name) == CHOOSE i \in Positions(v) : Tiers(v)[i].name = name

\* The first tier whose model is default_model, else the middle of the ladder.
DefaultIndex(v) ==
    LET ofDefault == {i \in Positions(v) : Tiers(v)[i].model = Policies[v].default}
    IN  IF ofDefault = {} THEN Len(Tiers(v)) \div 2 + 1
        ELSE CHOOSE i \in ofDefault : \A j \in ofDefault : i <= j

\* Where a tier that a record names is found: a name this version does not know is taken
\* for the default tier.
Anchor(v, name) == IF name \in Names(v) THEN TierIndex(v, name) ELSE DefaultIndex(v)

AllNames == UNION {Names(v) : v \in Versions \ Broken}

\* "main" is a session of its own; "sub" is that of a subagent whose parent is "main".
Keys == {"main", "sub"}

VARIABLES
    session,          \* key -> the pinned record, or Unpinned
    call              \* the request under way

rvars == <<vars, session, call>>

\* What a record names, and the model it routes to, are kept apart: the default pin names
\* default_model.
Unpinned == [name |-> "", model |-> "", override |-> FALSE, confidence |-> 0, esc |-> 0]

Idle == [at |-> "idle", key |-> "main", under |-> None, found |-> Unpinned, asked |-> None,
         verdict |-> "", name |-> "", confidence |-> 0]

Records == [name : TierNames \cup {""}, model : Models \cup {""}, override : BOOLEAN,
            confidence : 0..1, esc : Nat]

Calls == [at : {"idle", "routing", "asking", "asked", "answered"}, key : Keys,
          under : Served, found : Records, asked : Served, verdict : TierNames \cup {""},
          name : TierNames \cup {""}, confidence : 0..1]

\* A request is routed, and classified, by policies that were loaded; a record names a tier
\* of some version.
RTypeOK ==
    /\ TypeOK
    /\ session \in [Keys -> Records]
    /\ \A k \in Keys : session[k] = Unpinned \/ session[k].name \in AllNames
    /\ call \in Calls
    /\ call.found = Unpinned \/ call.found.name \in AllNames
    /\ call.at # "idle" => call.under # None
    /\ call.at = "asked" => call.asked # None
    /\ call.at = "answered" => call.name \in AllNames

RInit == Init /\ session = [k \in Keys |-> Unpinned] /\ call = Idle

-----------------------------------------------------------------------------
\* A pin at a tier of version v.
PinAt(v, i, override, confidence) ==
    [name |-> Tiers(v)[i].name, model |-> Tiers(v)[i].model, override |-> override,
     confidence |-> confidence, esc |-> 0]

DefaultPin(v) ==
    [PinAt(v, DefaultIndex(v), FALSE, 0) EXCEPT !.model = Policies[v].default]

\* Mutant of ClassifiedPin: the model is the one the classifier client looked up.
ClassifiedPin_ClientsModel(v, name, confidence) ==
    IF name \in Names(v)
    THEN [PinAt(v, TierIndex(v, name), FALSE, confidence)
             EXCEPT !.model = Tiers(hook.policies)[TierIndex(hook.policies, name)].model]
    ELSE DefaultPin(v)

\* Mutant of ClassifiedPin: a name unknown by now still brings its confidence.
ClassifiedPin_KeepsConfidence(v, name, confidence) ==
    IF name \in Names(v) THEN PinAt(v, TierIndex(v, name), FALSE, confidence)
    ELSE [DefaultPin(v) EXCEPT !.confidence = confidence]

\* build_pin_record with a classifier's result: the name counts, if v knows it.
ClassifiedPin(v, name, confidence) ==
    IF name \in Names(v) THEN PinAt(v, TierIndex(v, name), FALSE, confidence)
    ELSE DefaultPin(v)

\* The tier of subagent_tier, or the default one when there is no pinned parent.
SubagentPin(v, parent) ==
    LET own == Anchor(v, parent.name)
        i == IF parent = Unpinned THEN DefaultIndex(v)
             ELSE IF parent.override \/ own = 1 THEN own ELSE own - 1
    IN  PinAt(v, i, FALSE, 1)

-----------------------------------------------------------------------------
\* policies_holder.get() runs to its end once it has begun.
HookIsBetweenReads == hook.step = "idle" /\ hook.policies # None

\* hook.py:93: the policies of the whole request are those served now; the record is read
\* next (hook.py:120).
Begin(k) ==
    /\ call.at = "idle"
    /\ HookIsBetweenReads
    /\ call' = [Idle EXCEPT !.at = "routing", !.key = k, !.under = hook.policies,
                               !.found = session[k]]
    /\ UNCHANGED <<vars, session>>

Routing == call.at = "routing" /\ hook.step = "idle"

\* The request ends with this record at its key.
EndWith(record) ==
    /\ session' = [session EXCEPT ![call.key] = record]
    /\ call' = Idle
    /\ UNCHANGED vars

\* A pinned session without a signal, or that escalate refuses to move: its record is
\* written back if the scan state moved.
FollowPin ==
    /\ Routing /\ call.found # Unpinned
    /\ \E record \in {session[call.key], call.found} : EndWith(record)

\* A pinned session with a signal: one tier up from where the name is found.
Escalate ==
    /\ Routing /\ call.found # Unpinned
    /\ LET record == call.found
           i == Anchor(call.under, record.name)
       IN  /\ record.esc < Policies[call.under].cap
           /\ i < Len(Tiers(call.under))
           /\ EndWith([record EXCEPT !.name = Tiers(call.under)[i + 1].name,
                                     !.model = Tiers(call.under)[i + 1].model,
                                     !.esc = @ + 1])

\* A first request whose path forces the tier; the policies were checked to name one.
ForcePin ==
    /\ Routing /\ call.found = Unpinned /\ call.key = "main"
    /\ EndWith(PinAt(call.under, TierIndex(call.under, Policies[call.under].force), TRUE, 1))

\* The first request of a subagent.
PinSubagent ==
    /\ Routing /\ call.found = Unpinned /\ call.key = "sub"
    /\ EndWith(SubagentPin(call.under, session["main"]))

\* Any other first request asks the classifier.
Ask ==
    /\ Routing /\ call.found = Unpinned /\ call.key = "main"
    /\ call' = [call EXCEPT !.at = "asking"]
    /\ UNCHANGED <<vars, session>>

\* POST /classify arrives: app.py:128 takes the policies for the prompt and the answer.
SvcTakes ==
    /\ call.at = "asking" /\ SvcUp
    /\ call' = [call EXCEPT !.at = "asked", !.asked = svc.policies]
    /\ UNCHANGED <<vars, session>>

\* What chat_classify makes of the backend model's reply: the tier it names, or "" for a
\* failed call, a reply without a JSON object, or an object without a name.
BackendAnswers == TierNames \cup {""}

\* A tier that was asked about is passed on with its confidence, clamped to 0..1; anything
\* else becomes the default tier with confidence 0.
SvcAnswers(verdict, confidence) ==
    /\ call.at = "asked"
    /\ call' = IF verdict \in Names(call.asked)
               THEN [call EXCEPT !.at = "answered", !.verdict = verdict, !.name = verdict,
                                 !.confidence = confidence]
               ELSE [call EXCEPT !.at = "answered", !.verdict = verdict,
                                 !.name = Tiers(call.asked)[DefaultIndex(call.asked)].name]
    /\ UNCHANGED <<vars, session>>

\* classifier_client.py:45: a name today's policies do not know is no answer.
ReadAnswer ==
    /\ call.at = "answered" /\ HookIsBetweenReads
    /\ EndWith(IF call.name \in Names(hook.policies)
               THEN ClassifiedPin(call.under, call.name, call.confidence)
               ELSE DefaultPin(call.under))

\* A timeout, a refused connection, or a status that is not 200.
NoAnswer ==
    /\ call.at \in {"asking", "asked", "answered"} /\ hook.step = "idle"
    /\ EndWith(DefaultPin(call.under))

\* The record expires, Redis loses it, or the store looks under another prefix.
Forget(k) ==
    /\ session[k] # Unpinned
    /\ session' = [session EXCEPT ![k] = Unpinned]
    /\ UNCHANGED <<vars, call>>

CallStep ==
    \/ FollowPin \/ Escalate \/ ForcePin \/ PinSubagent
    \/ Ask \/ SvcTakes \/ ReadAnswer \/ NoAnswer
    \/ \E verdict \in BackendAnswers, confidence \in 0..1 : SvcAnswers(verdict, confidence)

RNext ==
    \/ Next /\ UNCHANGED <<session, call>>
    \/ \E k \in Keys : Begin(k) \/ Forget(k)
    \/ CallStep

RSpec == RInit /\ [][RNext]_rvars

\* A request that has begun ends: its awaits have timeouts.
FairSpec == RSpec /\ ReadersAreFair /\ WF_rvars(CallStep)

-----------------------------------------------------------------------------
(***************************************************************************)
(* Properties.                                                             *)
(***************************************************************************)

\* The tiers of version v with their models, and its default pin.
Choices(v) ==
    {[name |-> Tiers(v)[i].name, model |-> Tiers(v)[i].model] : i \in Positions(v)}
        \cup {[name |-> DefaultPin(v).name, model |-> DefaultPin(v).model]}

\* A request decides about tiers, models and the cap under one version, the one it began
\* with, whatever its awaits saw: what it writes is the record it found, or a tier of that
\* version with that version's model.  Where and for how long it writes is read again.
OneVersionDecides ==
    [][\A k \in Keys :
          session'[k] \notin {session[k], Unpinned, call.found} =>
              [name |-> session'[k].name, model |-> session'[k].model] \in Choices(call.under)
      ]_rvars

\* hook.py:259, state_machine.py:57-61: a classification reported with confidence is one
\* the model made: its answer, not a default somebody on the way put in its place.
ConfidenceIsEarned ==
    [][call.at = "answered" /\ session'["main"] # session["main"]
          /\ session'["main"].confidence > 0 => session'["main"].name = call.verdict]_rvars

\* Once the edits are over, every request is routed by the file as it is.
SettledCallsFollowTheFile == EditsSettle => <>[](call.at # "idle" => call.under = file)

\* state_machine.py:3-6, "monotonic non-decreasing ... no function here can produce a
\* downgrade": an escalation never moves a session to a model that the ladder it climbs
\* has below the one it had.
EscalationsGoUp ==
    [][\A k \in Keys :
          session'[k].esc > session[k].esc =>
              \A i, j \in Positions(call.under) :
                  /\ Tiers(call.under)[i].model = session'[k].model
                  /\ Tiers(call.under)[j].model = session[k].model
                  => j <= i]_rvars
=============================================================================

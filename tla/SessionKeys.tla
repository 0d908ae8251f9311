---------------------------- MODULE SessionKeys ----------------------------
(***************************************************************************)
(* The key a request is routed by (session_key.py, hook.py:109-118): its   *)
(* session, and for subagent traffic under SUBAGENT_ROUTING_ENABLED the    *)
(* agent too.                                                              *)
(***************************************************************************)
EXTENDS Naturals

CONSTANTS
    Sessions,         \* what derive_session_key yields: a header or a content hash
    Agents,           \* x-claude-code-agent-id values
    NoAgent,          \* the header is missing or empty
    SubagentRouting   \* SUBAGENT_ROUTING_ENABLED

ASSUME KeysAssumption ==
    /\ NoAgent \notin Agents
    /\ SubagentRouting \in BOOLEAN

(***************************************************************************)
(* What the hook reads of one request: `sub` is the presence of the parent *)
(* agent header, `n` the number of messages, `header` x-router-escalate,   *)
(* `override` the outcome of match_path_override, `side` a system prompt   *)
(* that marks client housekeeping.                                         *)
(***************************************************************************)
Request ==
    [session : Sessions, agent : Agents \cup {NoAgent}, sub : BOOLEAN,
     n : Nat, header : BOOLEAN, override : BOOLEAN, side : BOOLEAN]

Keys == Sessions \X (Agents \cup {NoAgent})

BaseKey(i) == <<i.session, NoAgent>>

\* Only then does the request take _handle_first_request's subagent path.
RoutedAsSubagent(i) == SubagentRouting /\ i.sub

\* A subagent that sends no agent id falls back on its parent's own key.
KeyOf(i) ==
    IF RoutedAsSubagent(i) /\ i.agent # NoAgent THEN <<i.session, i.agent>> ELSE BaseKey(i)
=============================================================================

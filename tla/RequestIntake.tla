---------------------------- MODULE RequestIntake ----------------------------
(***************************************************************************)
(* What the hook makes of a request before its first await (hook.py:79-118 *)
(* and 275-281, session_key.py, overrides.py, client.py, hashing.py): which *)
(* session it belongs to, whether its tier is forced, and which calls of a *)
(* concrete model reach the table of overrides.                            *)
(*                                                                         *)
(* A text is a sequence of words; the limits on characters are limits on   *)
(* words here.  Header names are lowercase already.  Hashes are taken to   *)
(* be injective, so a derived key is the tuple of what is hashed.          *)
(***************************************************************************)
EXTENDS OverrideTable

CONSTANTS
    Conversations,    \* names of the conversations clients lead
    Shape,            \* conversation -> alias, headers, system prompt, opening
    Contents,         \* contents of messages and system prompts, and their blocks
    Nesting,          \* content -> how deep blocks are nested in it
    MaxNesting,       \* bound: deeper contents exceed the interpreter's stack
    Presences,        \* the sets of containers that requests come with
    SessionHeaders,   \* ROUTER_SESSION_HEADERS, in order of priority
    SystemLimit,      \* words of a system prompt that are looked at
    MessageLimit,     \* words of a first message that are looked at
    ExcerptLen,       \* words of a CLAUDE.md excerpt
    ForceTierName,    \* path_overrides.force_tier
    CriticalWords,    \* words that path_overrides.patterns match
    HousekeepingWords,\* words that side_channels.system_patterns match
    MaxMessages       \* bound: messages of a conversation

Containers == <<"proxy_server_request", "metadata", "litellm_metadata">>

ASSUME IntakeAssumption ==
    /\ {SystemLimit, MessageLimit, ExcerptLen, MaxMessages} \subseteq Nat \ {0}
    /\ Presences \subseteq SUBSET ToSet(Containers)
    /\ SessionHeaders \in Seq(STRING)
    /\ \A c \in Conversations :
          /\ DOMAIN Shape[c].headers = ToSet(Containers)
          /\ \A at \in ToSet(Containers), name \in ToSet(SessionHeaders) :
                name \in DOMAIN Shape[c].headers[at] =>
                    Shape[c].headers[at][name] \in SessionIds \cup {""}
          /\ {Shape[c].system, Shape[c].opening} \subseteq Contents

VARIABLES
    compacted,        \* conversation -> whether its history was replaced by a summary
    known             \* conversation -> the identities its requests were routed under

vars == <<compacted, known, tableVars>>

TypeOK ==
    /\ compacted \in [Conversations -> BOOLEAN]
    /\ TableTypeOK

Init ==
    /\ compacted = [c \in Conversations |-> FALSE]
    /\ known = [c \in Conversations |-> {}]
    /\ TableInit

-----------------------------------------------------------------------------
(***************************************************************************)
(* Contents and messages.  A content is a text, a list of blocks, or       *)
(* something without text; a block is a content again.                     *)
(***************************************************************************)
Text(words) == [kind |-> "text", text |-> words, parts |-> <<>>]
Blocks(parts) == [kind |-> "blocks", text |-> <<>>, parts |-> parts]
Image == Blocks(<<>>)

\* A client that compacts its history puts a summary in the place of its first message.
Summary == Text(<<"summary">>)

\* What comes after the first message.
Later == Text(<<"later">>)

\* Contents arrive as JSON: blocks are nested in blocks, to some depth.
ASSUME ContentAssumption ==
    /\ MaxNesting \in Nat
    /\ Nesting \in [Contents -> 0..MaxNesting]
    /\ {Summary, Later} \subseteq Contents
    /\ \A content \in Contents :
          \/ content = Text(content.text) /\ content.text \in Seq(STRING)
          \/ /\ content = Blocks(content.parts) /\ content.parts \in Seq(Contents)
             /\ \A i \in DOMAIN content.parts : Nesting[content.parts[i]] < Nesting[content]

Cut(words, n) == SubSeq(words, 1, IF Len(words) < n THEN Len(words) ELSE n)

\* Mutant of FlattenContent: the content of a block is not looked into.
FlattenContent_OneLevel(content, limit) ==
    FoldLeft(LAMBDA words, block : Cut(words \o block.text, limit),
             Cut(content.text, limit), content.parts)

\* Block by block until the limit, each cut to what is left of it: texts[i][n] is what
\* block i yields under a limit of n.
Gather(texts, limit) ==
    LET upTo[i \in 0..Len(texts)] ==
            IF i = 0 THEN <<>>
            ELSE IF Len(upTo[i-1]) >= limit THEN upTo[i-1]
            ELSE upTo[i-1] \o texts[i][limit - Len(upTo[i-1])]
    IN  upTo[Len(texts)]

Flatten[content \in Contents] ==
    [limit \in Nat |->
        IF content.kind = "text" THEN Cut(content.text, limit)
        ELSE Gather([i \in DOMAIN content.parts |-> Flatten[content.parts[i]]], limit)]

FlattenContent(content, limit) == Flatten[content][limit]

\* The user's first message.
Opening(c) == IF compacted[c] THEN Summary ELSE Shape[c].opening

\* The request of conversation c with n messages besides the system prompt, which OpenAI
\* clients send as the first message.
Messages(c, n) ==
    (IF Shape[c].topLevel THEN <<>> ELSE <<[role |-> "system", content |-> Shape[c].system]>>)
      \o [i \in 1..n |->
            [role    |-> IF i % 2 = 1 THEN "user" ELSE "assistant",
             content |-> IF i = 1 THEN Opening(c) ELSE Later]]

\* The first message with this role, as text.
FirstText(messages, role, limit) ==
    LET at == SelectInSeq(messages, LAMBDA msg : msg.role = role)
    IN  IF at = 0 THEN <<>> ELSE FlattenContent(messages[at].content, limit)

\* Mutant of FirstUserMessageText: the newest user message is taken.
FirstUserMessageText_Last(c, n) ==
    FirstText(Reverse(Messages(c, n)), "user", MessageLimit)

FirstUserMessageText(c, n) == FirstText(Messages(c, n), "user", MessageLimit)

SystemText(c, n) ==
    IF Shape[c].topLevel THEN FlattenContent(Shape[c].system, SystemLimit)
    ELSE FirstText(Messages(c, n), "system", SystemLimit)

-----------------------------------------------------------------------------
\* Mutant of ExtractHeaders: an earlier container keeps its value.
ExtractHeaders_FirstWins(c, present) ==
    LET naming(name) == {i \in DOMAIN Containers :
                            Containers[i] \in present /\ name \in DOMAIN Shape[c].headers[Containers[i]]}
    IN  [name \in UNION {DOMAIN Shape[c].headers[at] : at \in present} |->
            Shape[c].headers[Containers[Min(naming(name))]][name]]

\* The headers of the containers that a request has; a later container overrides.
ExtractHeaders(c, present) ==
    LET naming(name) == {i \in DOMAIN Containers :
                            Containers[i] \in present /\ name \in DOMAIN Shape[c].headers[Containers[i]]}
    IN  [name \in UNION {DOMAIN Shape[c].headers[at] : at \in present} |->
            Shape[c].headers[Containers[Max(naming(name))]][name]]

Header(headers, name) == IF name \in DOMAIN headers THEN headers[name] ELSE ""

\* The first of the session headers that is not empty, or "".
SessionId(headers) ==
    LET at == SelectInSeq(SessionHeaders, LAMBDA name : Header(headers, name) # "")
    IN  IF at = 0 THEN "" ELSE Header(headers, SessionHeaders[at])

\* derive_session_key: what the client says, or the alias and the two hashes.
SessionKey(c, n, headers) ==
    IF SessionId(headers) # "" THEN <<SessionId(headers)>>
    ELSE <<Shape[c].alias, SystemText(c, n), FirstUserMessageText(c, n)>>

ClaudeHeaders == {"x-claude-code-session-id", "x-claude-code-agent-id"}

IsClaudeCode(headers) == DOMAIN headers \cap ClaudeHeaders # {}

\* extract_repo_hints: the path after the first "cwd:", and the text from the first
\* mention of CLAUDE.md on.
After(words, word, n) ==
    LET at == SelectInSeq(words, LAMBDA w : w = word)
    IN  IF at = 0 THEN {} ELSE ToSet(Cut(SubSeq(words, at, Len(words)), n))

RepoHints(words) == After(words, "cwd:", 2) \cup After(words, "CLAUDE.md", ExcerptLen)

\* match_path_override, with empty hints for other clients than Claude Code.
PathOverride(c, n, headers) ==
    \/ Header(headers, "x-lite-tier") = ForceTierName
    \/ IsClaudeCode(headers) /\ RepoHints(SystemText(c, n)) \cap CriticalWords # {}

IsSideChannel(c, n) == ToSet(SystemText(c, n)) \cap HousekeepingWords # {}

-----------------------------------------------------------------------------
\* A request of the virtual model with n messages: the conversation has grown, was sent
\* again, or was taken back to an earlier point.
Route(c, present, n) ==
    LET headers == ExtractHeaders(c, present) IN
    /\ ~IsSideChannel(c, n)
    /\ known' = [known EXCEPT ![c] = @ \cup {[key    |-> SessionKey(c, n, headers),
                                             forced |-> PathOverride(c, n, headers)]}]
    /\ UNCHANGED <<compacted, tableVars>>

\* A request of a concrete model, of a session that says who it is.
Override(c, present, model) ==
    LET id == SessionId(ExtractHeaders(c, present))
    IN  /\ id # ""
        /\ Call(<<id, model>>)
        /\ UNCHANGED <<compacted, known>>

\* The client replaces its history by a summary: a session without an id begins anew.
Compact(c) ==
    /\ known[c] # {} /\ ~compacted[c]
    /\ compacted' = [compacted EXCEPT ![c] = TRUE]
    /\ known' = [known EXCEPT ![c] =
                   IF SessionId(ExtractHeaders(c, ToSet(Containers))) # "" THEN @ ELSE {}]
    /\ UNCHANGED tableVars

Next ==
    \E c \in Conversations :
        \/ \E present \in Presences :
              \/ \E n \in 1..MaxMessages : Route(c, present, n)
              \/ \E model \in ConcreteModels : Override(c, present, model)
        \/ Compact(c)

Spec == Init /\ [][Next]_vars

-----------------------------------------------------------------------------
(***************************************************************************)
(* Properties.                                                             *)
(***************************************************************************)

\* hashing.py:20-21, "stable within a conversation": the requests of one conversation have
\* one key and one answer to whether they are mission-critical, however long it grows and
\* whichever containers its headers come in.
IdentityIsStable == \A c \in Conversations : Cardinality(known[c]) <= 1

\* All the words of a content.
FullText[content \in Contents] ==
    content.text \o FlattenSeq([i \in DOMAIN content.parts |-> FullText[content.parts[i]]])

\* What a conversation shows of itself: a session id, or its alias and the beginnings of
\* its system prompt and its opening.
Visible(c) ==
    LET id == SessionId(ExtractHeaders(c, ToSet(Containers)))
    IN  IF id # "" THEN <<id>>
        ELSE <<Shape[c].alias, Cut(FullText[Shape[c].system], SystemLimit),
               Cut(FullText[Opening(c)], MessageLimit)>>

\* session_key.py:98-111: two conversations share a session exactly when they show the same.
KeysTellApart ==
    \A c, d \in Conversations : \A i \in known[c], j \in known[d] :
        i.key = j.key <=> Visible(c) = Visible(d)
=============================================================================

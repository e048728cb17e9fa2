--------------------------- MODULE MCConversation ---------------------------
(* Conversation on a small instance.                                       *)
EXTENDS Conversation

With(a, s, p, o, c, ns, ne) ==
    [adapter |-> a, asker |-> s, policy |-> p, owner |-> o, contains |-> c,
     sends |-> ns, events |-> ne]

\* The second question contains the first; or they are equal.
Longer == {<<2, 1>>}
Equal == {<<1, 2>>, <<2, 1>>}

\* Every adapter, every policy with and without an owning operator, both
\* askers, a conversation that is not bridged; two questions, with texts that
\* contain each other or not, one question and its retry, more than one
\* disturbance of a single question, and one disturbance of two.
MCSetups ==
    {With("claude", "op", "open", "op", {}, 2, 1),
     With("claude", "op", "open", "op", Equal, 2, 0)} \union
    {With("grok", "lead", "lead-upstream", "op", c, 2, 0) :
        c \in {{}, Longer}} \union
    {With("grok", "op", "open", "op", {}, 1, 1),
     With("codex", "lead", "lead-upstream", "none", {}, 1, 2),
     With("gemini", "op", "lead-upstream", "op", {}, 1, 2),
     With("agy", "op", "open", "op", Longer, 2, 0),
     With("agy", "op", "open", "op", {}, 1, 2),
     With("agy", "lead", "open", "op", {}, 1, 1)}
=============================================================================

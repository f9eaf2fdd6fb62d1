------------------------------ MODULE Assistant ------------------------------
(***************************************************************************)
(* routers/ai.py: a question to the assistant goes through a chain of      *)
(* models with retries and ends with rules that need no network.  The      *)
(* browser waits for thirty seconds and then answers itself (App.jsx); the *)
(* server goes on.  Texts are abstracted to who wrote them, a question to  *)
(* the first rule it meets.                                                *)
(***************************************************************************)
EXTENDS Naturals

CONSTANT NModels    \* length of MODEL_CHAIN

ASSUME AssistantAssumption == NModels \in Nat \ {0}

VARIABLE chat

Rules == {"hndl", "score", "fix", "standards", "detect", "certificate", "protocol", "generic"}

IdleChat == [pc |-> "idle", op |-> "none", rule |-> "generic", known |-> FALSE, model |-> 1,
             attempt |-> 0, source |-> "none", client |-> "none"]

\* Mutant: one attempt too many.
RetriesAndOne(op) == IF op = "status" THEN 0 ELSE 3

\* /chat and /explain retry, /status does not.
Retries(op) == IF op = "status" THEN 0 ELSE 2

\* known: the context of the question has a TLS version.
Ask(op, rule, known, key) ==
    /\ chat.pc = "idle"
    /\ chat' = [IdleChat EXCEPT !.pc = IF key THEN "call" ELSE "rule", !.op = op, !.rule = rule,
                                !.known = known, !.client = "waiting"]

\* The next of the chain; the rules once it is exhausted.
NextModel == IF chat.model < NModels
             THEN [chat EXCEPT !.model = @ + 1, !.attempt = 0]
             ELSE [chat EXCEPT !.pc = "rule"]

\* _call_model: 503, 429 and 500 are retried; any other failure, and an answer
\* without text, tries the next model.  Reading the body of an error may fail
\* itself, outside of what is caught.
CallModel ==
    /\ chat.pc = "call"
    /\ \/ chat' = [chat EXCEPT !.pc = "done", !.source = "gemini"]
       \/ chat.attempt < Retries(chat.op) /\ chat' = [chat EXCEPT !.attempt = @ + 1]
       \/ chat' = NextModel
       \/ chat' = [chat EXCEPT !.pc = "failed"]

\* _rule asks whether "1.2" is in the TLS version; the context has the key even
\* when the client sent no version, and then it is None.
Breaks == chat.op = "chat" /\ ~chat.known /\ chat.rule \in {"score", "protocol"}

AnswerByRule ==
    /\ chat.pc = "rule"
    /\ chat' = [chat EXCEPT !.pc = IF Breaks THEN "failed" ELSE "done", !.source = "rule-based"]

ChatStep == CallModel \/ AnswerByRule

\* AbortSignal.timeout(30000): the browser makes up an answer of its own.
GiveUp ==
    /\ chat.pc \in {"call", "rule"} /\ chat.client = "waiting"
    /\ chat' = [chat EXCEPT !.client = "local"]

ChatInit == chat = IdleChat
=============================================================================

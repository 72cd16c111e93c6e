-------------------------- MODULE AgentProxyStream --------------------------
(***************************************************************************)
(* A streamed answer through the agent proxy (openai_chat_completions and  *)
(* _agent_proxy_online_stream in src/source/server.py).  Names in the      *)
(* request went out as placeholders; the provider's answer arrives in      *)
(* pieces, cut anywhere, and the placeholders in it are turned back into   *)
(* names before the caller sees them.  Text that may be the beginning of   *)
(* a placeholder is held back until the next piece.                        *)
(*                                                                         *)
(* Text is a sequence of symbols.  As in the program, a placeholder begins *)
(* and ends with the same two symbols.  The audit file may fail, the       *)
(* provider may fail at any piece, and the caller may leave at any time.   *)
(***************************************************************************)
EXTENDS Integers, SequencesExt

CONSTANTS
    PxOrder,       \* the placeholders of this request, in the order they are replaced
    PxName,        \* what each of them stands for
    PxOther,       \* other words of an answer: text, and placeholders never given out
    PxMaxWords,    \* bound on the words of an answer
    PxMustAudit    \* strict disclosure audit, without the emergency override

Bar == "_"
Mark == "m"            \* MCP_ANON_ or MCP_REDACTED_
Redacted == "R"        \* [REDACTED_SECRET]
PxKnown == Range(PxOrder)
Opening == <<Bar, Bar, Mark>>
Closing == <<Bar, Bar>>

\* A name, as in TERM_0001, has no Mark and no two Bars next to each other.
Placeholders ==
    {p \in Seq(STRING) :
        /\ Len(p) > 5 /\ IsPrefix(Opening, p) /\ SubSeq(p, Len(p) - 1, Len(p)) = Closing
        /\ \A i \in 4..Len(p) : p[i] # Mark
        /\ \A i \in 4..(Len(p) - 2) : p[i] = Bar => p[i + 1] # Bar}

ASSUME PxAssumption ==
    /\ PxOrder \in Seq(Placeholders) /\ PxOrder # <<>>
    /\ PxOther \subseteq Seq(STRING) /\ PxMaxWords \in Nat /\ PxMustAudit \in BOOLEAN
    /\ PxName \in [PxKnown -> STRING \ {Bar, Mark}]

VARIABLES
    pxStep,      \* where the request is
    pxAnswer,    \* the provider's whole answer
    pxSent,      \* how much of it has arrived
    pxBuffer,    \* what is held back
    pxShown,     \* what the caller got
    pxGone,      \* the caller has left
    pxAudit,     \* the request's lines in the disclosure file
    pxMemory,    \* how much of the answer the memory summary was made from; -1: none
    pxSevered    \* history: a piece ended where it severs a placeholder's closing

pxVars == <<pxStep, pxAnswer, pxSent, pxBuffer, pxShown, pxGone, pxAudit, pxMemory, pxSevered>>

Letters == UNION {Range(w) : w \in PxKnown \cup PxOther}
Words == UNION {[1..n -> PxKnown \cup PxOther] : n \in 0..PxMaxWords}
Answers == {FlattenSeq(w) : w \in Words}
PxSteps == {"audit", "call", "stream", "done", "failed", "left", "refused"}

PxTypeOK ==
    /\ pxStep \in PxSteps
    /\ pxAnswer \in Answers /\ pxSent \in 0..Len(pxAnswer)
    /\ IsSuffix(pxBuffer, SubSeq(pxAnswer, 1, pxSent))
    /\ pxShown \in Seq(Letters \cup Range(PxName) \cup {Redacted})
    /\ pxGone \in BOOLEAN
    /\ pxAudit \subseteq {"request", "response", "failure"}
    /\ pxMemory \in -1..pxSent /\ pxSevered \in BOOLEAN

PxInit ==
    /\ pxStep = "audit"
    /\ pxAnswer \in Answers
    /\ pxSent = 0 /\ pxBuffer = <<>> /\ pxShown = <<>> /\ pxGone = FALSE
    /\ pxAudit = {} /\ pxMemory = -1 /\ pxSevered = FALSE

-----------------------------------------------------------------------------
\* The text from i on begins with the word w.
At(text, i, w) == i + Len(w) - 1 <= Len(text) /\ SubSeq(text, i, i + Len(w) - 1) = w

\* Text with every match replaced, from the left; length[i] is how long the match
\* at i is, 0 for none.
Replaced(text, length, by) ==
    LET rest[i \in 1..(Len(text) + 1)] ==
            IF i > Len(text) THEN <<>>
            ELSE IF length[i] = 0 THEN <<text[i]>> \o rest[i + 1]
            ELSE <<by>> \o rest[i + length[i]]
    IN rest[1]

WordReplaced(text, w, by) ==
    Replaced(text, [i \in DOMAIN text |-> IF At(text, i, w) THEN Len(w) ELSE 0], by)

\* How far from i on the text consists of symbols of the set.
Run(text, i, set) == Max({0} \cup {n \in 1..(Len(text) - i + 1) : \A j \in 0..(n - 1) : text[i + j] \in set})

NameLetters == Letters \ {Bar, Mark, "x"}

\* A placeholder by its shape: opening, name, closing.
Shaped(text, i) ==
    LET name == Run(text, i + 3, NameLetters)
    IN IF At(text, i, Opening) /\ name > 0 /\ At(text, i + 3 + name, Closing) THEN name + 5 ELSE 0

\* What is left of one: an opening, and whatever may follow it in a placeholder.
Fragment(text, i) ==
    IF At(text, i, Opening) THEN 3 + Run(text, i + 3, NameLetters \cup {Bar, Mark}) ELSE 0

\* The text after the first k placeholders are replaced.
Named(text) ==
    LET named[k \in 0..Len(PxOrder)] ==
            IF k = 0 THEN text
            ELSE WordReplaced(named[k - 1], PxOrder[k], PxName[PxOrder[k]])
    IN named

\* _agent_proxy_deanonymize_text: known placeholders, then shapes, then fragments.
Deanonymized(text) ==
    LET named == Named(text)[Len(PxOrder)]
        shaped == Replaced(named, [i \in DOMAIN named |-> Shaped(named, i)], Redacted)
    IN Replaced(shaped, [i \in DOMAIN shaped |-> Fragment(shaped, i)], Redacted)

MaxLen == Max({Len(p) : p \in PxKnown})
From(text, i) == SubSeq(text, i, Len(text))

\* Broken variant: only the last symbol is looked at.
SafeUptoLast(buffer) ==
    IF \E p \in PxKnown : buffer # <<>> /\ p[1] = Last(buffer) THEN Len(buffer) - 1 ELSE Len(buffer)

\* How much of the buffer may go out: what is before the first suffix that begins a
\* placeholder, among the suffixes shorter than the longest placeholder.
SafeUpto(buffer) ==
    LET open == {i \in 1..Len(buffer) :
                    /\ i > Len(buffer) - MaxLen + 1
                    /\ \E p \in PxKnown : IsPrefix(From(buffer, i), p)}
    IN Min({Len(buffer)} \cup {i - 1 : i \in open})

\* A piece that ends here ends with a longest placeholder, or with the first symbol
\* of a placeholder that follows another one.
Severs(end) ==
    \E p \in PxKnown, i \in 1..end :
        /\ At(pxAnswer, i, p)
        /\ \/ Len(p) = MaxLen /\ i + Len(p) - 1 = end
           \/ i + Len(p) = end /\ pxAnswer[end] = Bar

-----------------------------------------------------------------------------
PxUnchanged == UNCHANGED <<pxAnswer, pxGone>>

\* Broken variant: the audit line is left to the call.
PxRecordLater ==
    /\ pxStep = "audit"
    /\ pxStep' = "call"
    /\ PxUnchanged /\ UNCHANGED <<pxAudit, pxSent, pxBuffer, pxShown, pxMemory, pxSevered>>

\* The request's audit line is written before the provider is called; when that
\* fails and it must be written, the caller is refused.
PxRecord ==
    /\ pxStep = "audit"
    /\ \/ pxStep' = "call" /\ pxAudit' = pxAudit \cup {"request"}
       \/ pxStep' = (IF PxMustAudit THEN "refused" ELSE "call") /\ UNCHANGED pxAudit
    /\ PxUnchanged /\ UNCHANGED <<pxSent, pxBuffer, pxShown, pxMemory, pxSevered>>

PxCall ==
    /\ pxStep = "call"
    /\ pxStep' = "stream"
    /\ PxUnchanged /\ UNCHANGED <<pxSent, pxBuffer, pxShown, pxAudit, pxMemory, pxSevered>>

\* A piece arrives.  It joins what was held back, and what is safe goes out; the
\* piece that finishes the answer takes everything along.
PxPiece(n, finish) ==
    /\ pxStep = "stream" /\ ~pxGone /\ n <= Len(pxAnswer) - pxSent
    /\ finish => pxSent + n = Len(pxAnswer)
    /\ LET buffer == pxBuffer \o SubSeq(pxAnswer, pxSent + 1, pxSent + n)
           upto == IF finish THEN Len(buffer) ELSE SafeUpto(buffer)
       IN /\ pxShown' = pxShown \o Deanonymized(SubSeq(buffer, 1, upto))
          /\ pxBuffer' = From(buffer, upto + 1)
    /\ pxSent' = pxSent + n
    /\ pxSevered' = (pxSevered \/ Severs(pxSent + n))
    /\ PxUnchanged /\ UNCHANGED <<pxStep, pxAudit, pxMemory>>

\* The caller is found gone before a piece is looked at.
PxDisconnected ==
    /\ pxStep = "stream" /\ pxGone
    /\ pxStep' = "left"
    /\ pxAudit' = pxAudit \cup {"failure"}
    /\ PxUnchanged /\ UNCHANGED <<pxSent, pxBuffer, pxShown, pxMemory, pxSevered>>

\* The server cancels the stream of a caller that left; nothing is recorded.
PxCancelled ==
    /\ pxStep = "stream" /\ pxGone
    /\ pxStep' = "left"
    /\ PxUnchanged /\ UNCHANGED <<pxSent, pxBuffer, pxShown, pxAudit, pxMemory, pxSevered>>

\* Broken variant: what is still held back is forgotten.
PxEndAtOnce ==
    /\ pxStep = "stream" /\ pxSent = Len(pxAnswer)
    /\ pxMemory' = pxSent
    /\ pxAudit' = pxAudit \cup {"response"}
    /\ pxStep' = "done"
    /\ PxUnchanged /\ UNCHANGED <<pxSent, pxBuffer, pxShown, pxSevered>>

\* The provider's stream is over: the rest of the buffer, memory, audit, [DONE].
PxEnd ==
    /\ pxStep = "stream" /\ pxSent = Len(pxAnswer)
    /\ pxShown' = pxShown \o Deanonymized(pxBuffer)
    /\ pxBuffer' = <<>>
    /\ pxMemory' = pxSent
    /\ pxAudit' = pxAudit \cup {"response"}
    /\ pxStep' = "done"
    /\ PxUnchanged /\ UNCHANGED <<pxSent, pxSevered>>

\* The provider, or at the end the memory file, fails; the buffer is not shown.
PxFail ==
    /\ pxStep = "stream"
    /\ pxAudit' = pxAudit \cup {"failure"}
    /\ pxStep' = "failed"
    /\ PxUnchanged /\ UNCHANGED <<pxSent, pxBuffer, pxShown, pxMemory, pxSevered>>

PxLeave ==
    /\ pxStep \in {"audit", "call", "stream"} /\ ~pxGone
    /\ pxGone' = TRUE
    /\ UNCHANGED <<pxStep, pxAnswer, pxSent, pxBuffer, pxShown, pxAudit, pxMemory, pxSevered>>

PxNext ==
    \/ PxRecord \/ PxCall \/ PxDisconnected \/ PxCancelled \/ PxEnd \/ PxFail \/ PxLeave
    \/ \E n \in 0..Len(pxAnswer), finish \in BOOLEAN : PxPiece(n, finish)

PxSpec == PxInit /\ [][PxNext]_pxVars

-----------------------------------------------------------------------------
\* Properties.

\* The provider is never called without a line in the disclosure file that says so,
\* when the operator asked for that; and the file never has an outcome of a call of
\* which it does not have the request.
PxDisclosed ==
    PxMustAudit /\ (pxStep \in {"call", "stream", "done", "failed"} \/ pxAudit # {})
        => "request" \in pxAudit

\* The answer quotes placeholders of this request only.
Quoting == \E ws \in Words : pxAnswer = FlattenSeq(ws) /\ \A i \in DOMAIN ws : Mark \in Range(ws[i]) => ws[i] \in PxKnown

\* However the answer was cut, the caller of a complete stream has the answer with
\* the names put back, except when a piece severed a placeholder's closing.
PxRestored ==
    pxStep = "done" /\ ~pxGone /\ Quoting /\ ~pxSevered => pxShown = Deanonymized(pxAnswer)

\* "placeholders split across chunks are restored" (docs/agent-api-proxy.md).
PxSplitRestored ==
    pxStep = "done" /\ ~pxGone /\ Quoting => pxShown = Deanonymized(pxAnswer)
=============================================================================

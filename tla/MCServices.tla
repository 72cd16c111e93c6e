----------------------------- MODULE MCServices -----------------------------
(***************************************************************************)
(* The components that share no state with any other, side by side.  A     *)
(* behaviour chooses one of them and is a behaviour of that one; the       *)
(* others stay at one of their initial states.                             *)
(*                                                                         *)
(* Nothing is lost by not interleaving them: no action of one reads or     *)
(* writes a variable of another, and every property is about one.          *)
(***************************************************************************)
EXTENDS StatusFile, MCEditTransaction, MemoryStore, WorkSnapshot, MCAgentProxyStream,
        HttpRateLimit, AnalysisIndex, TerminalSession

VARIABLE service

allVars == <<service, vars, txVars, memVars, snapVars, pxVars, rateVars, idxVars, termVars>>

-----------------------------------------------------------------------------
\* The whole tree, and a directory of it.
Roots == {IdxFiles, {1}}

\* Names are interchangeable, and values are: the components share the model values.
ServicesSymmetry ==
    Permutations(SnapNames) \cup Permutations(Versions) \cup Permutations(IdxTexts) \cup Permutations(Writers)

-----------------------------------------------------------------------------
Is(s) == service = s

\* A component that is not chosen has one initial state here, not all of its.
AllInit ==
    /\ service \in {"status", "transaction", "memory", "snapshot", "proxy", "rate", "index", "terminal"}
    /\ Init /\ MemInit /\ RateInit /\ TermInit
    /\ TxInit /\ (Is("transaction") \/ \A p \in Paths : disk[p] = Absent)
    /\ SnapInit /\ (Is("snapshot") \/ snapStash = <<>>)
    /\ PxInit /\ (Is("proxy") \/ pxAnswer = <<>>)
    /\ IdxInit /\ (Is("index") \/ \A f \in IdxFiles : idxTree[f].text = Gone)

StatusSteps == /\ Is("status") /\ Next
               /\ UNCHANGED <<service, txVars, memVars, snapVars, pxVars, rateVars, idxVars, termVars>>

TransactionSteps == /\ Is("transaction") /\ TxNext
                    /\ UNCHANGED <<service, vars, memVars, snapVars, pxVars, rateVars, idxVars, termVars>>

MemorySteps == /\ Is("memory") /\ MemNext
               /\ UNCHANGED <<service, vars, txVars, snapVars, pxVars, rateVars, idxVars, termVars>>

SnapshotSteps == /\ Is("snapshot") /\ SnapNext
                 /\ UNCHANGED <<service, vars, txVars, memVars, pxVars, rateVars, idxVars, termVars>>

ProxySteps == /\ Is("proxy") /\ PxNext
              /\ UNCHANGED <<service, vars, txVars, memVars, snapVars, rateVars, idxVars, termVars>>

RateSteps == /\ Is("rate") /\ RateNext
             /\ UNCHANGED <<service, vars, txVars, memVars, snapVars, pxVars, idxVars, termVars>>

IndexSteps == /\ Is("index") /\ IdxNext
              /\ UNCHANGED <<service, vars, txVars, memVars, snapVars, pxVars, rateVars, termVars>>

TerminalSteps == /\ Is("terminal") /\ TermNext
                 /\ UNCHANGED <<service, vars, txVars, memVars, snapVars, pxVars, rateVars, idxVars>>

AllNext ==
    \/ StatusSteps \/ TransactionSteps \/ MemorySteps \/ SnapshotSteps
    \/ ProxySteps \/ RateSteps \/ IndexSteps \/ TerminalSteps

AllSpec == AllInit /\ [][AllNext]_allVars

-----------------------------------------------------------------------------
\* Every component keeps the types of its state, of what it has on disk above all:
\* no row, record or log of a shape its reader does not expect, and no cache, bucket
\* or journal above its bound.
ServicesTypeOK ==
    /\ TypeOK /\ TxTypeOK /\ MemTypeOK /\ SnapTypeOK
    /\ PxTypeOK /\ RateTypeOK /\ IdxTypeOK /\ TermTypeOK
=============================================================================

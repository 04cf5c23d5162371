--------------------------- MODULE EsploraHistory ---------------------------
(***************************************************************************)
(* get_all_address_transactions of src/network/esplora_backend.py: the     *)
(* history of one address, read page by page while blocks keep arriving.   *)
(* The first page lists mempool transactions and the newest confirmed      *)
(* ones; the others continue below the last confirmed transaction read.    *)
(* The backend (external) is either faithful to its node, or answers       *)
(* anything at all.                                                        *)
(***************************************************************************)
EXTENDS Naturals, Sequences, SequencesExt, FiniteSetsExt

CONSTANTS
  Tx,         \* transactions of the address
  PageSize,   \* confirmed transactions on a page (25)
  PoolSize,   \* mempool transactions on the first page (50)
  PageLimit,  \* MAX_TRANSACTION_HISTORY_PAGES
  NoTx

ASSUME HistoryAssumption ==
  /\ PageSize \in Nat \ {0} /\ PoolSize \in Nat /\ PageLimit \in Nat \ {0}
  /\ IsFiniteSet(Tx) /\ NoTx \notin Tx

VARIABLES
  chain,      \* confirmed transactions, oldest first
  pool,       \* those in the mempool
  faithful,   \* FALSE: the backend answers anything
  phase,
  got,        \* what was read of each transaction
  cursor, seenCursors, pageCount,
  start       \* history: the chain and the pool at the first answer

nodeVars == <<chain, pool, faithful>>
readVars == <<phase, got, cursor, seenCursors, pageCount, start>>
vars == <<nodeVars, readVars>>

Seen == {"absent", "mempool", "confirmed"}

(* Types of the backend's node and of the reader.                          *)
TypeOK ==
  /\ IsInjective(chain) /\ ToSet(chain) \subseteq Tx
  /\ pool \subseteq Tx \ ToSet(chain) /\ faithful \in BOOLEAN
  /\ phase \in {"first", "next", "done", "error"}
  /\ got \in [Tx -> Seen]
  /\ cursor \in Tx \cup {NoTx} /\ seenCursors \subseteq Tx
  /\ pageCount \in 0 .. PageLimit

-----------------------------------------------------------------------------
(* The node behind the backend; no block is undone while pages are read.   *)

Arrive(t) ==
  /\ t \notin pool /\ ~Contains(chain, t)
  /\ pool' = pool \cup {t}
  /\ UNCHANGED <<chain, faithful, readVars>>

Confirm(t) ==
  /\ t \in pool
  /\ pool' = pool \ {t}
  /\ chain' = Append(chain, t)
  /\ UNCHANGED <<faithful, readVars>>

Evict(t) ==
  /\ t \in pool
  /\ pool' = pool \ {t}
  /\ UNCHANGED <<chain, faithful, readVars>>

Newest == Reverse(chain)

\* The page that follows the k newest transactions.
Page(k) == SubSeq(Newest, k + 1, Min({k + PageSize, Len(chain)}))

Below(t) == Page(SelectInSeq(Newest, LAMBDA u : u = t))

FirstAnswers ==
  IF faithful THEN
    {<<S, Page(0)>> :
       S \in {S \in SUBSET pool : Cardinality(S) = Min({PoolSize, Cardinality(pool)})}}
  ELSE (SUBSET Tx) \X BoundedSeq(Tx, PageSize)

ChainAnswers(t) == IF faithful THEN {Below(t)} ELSE BoundedSeq(Tx, PageSize)

-----------------------------------------------------------------------------
Init ==
  /\ chain \in BoundedSeq(Tx, Cardinality(Tx)) /\ IsInjective(chain)
  /\ pool \in SUBSET (Tx \ ToSet(chain)) /\ faithful \in BOOLEAN
  /\ phase = "first"
  /\ got = [t \in Tx |-> "absent"]
  /\ cursor = NoTx /\ seenCursors = {} /\ pageCount = 0
  /\ start = [chain |-> {}, pool |-> {}]

\* add_page: a confirmed answer replaces an earlier mempool one.
AddPage(mempool, page) ==
  /\ got' = [t \in Tx |->
       IF Contains(page, t) THEN "confirmed"
       ELSE IF t \in mempool /\ got[t] = "absent" THEN "mempool" ELSE got[t]]
  /\ cursor' = IF page = <<>> THEN NoTx ELSE Last(page)

ReadFirst ==
  /\ phase = "first"
  /\ \E answer \in FirstAnswers : AddPage(answer[1], answer[2])
  /\ phase' = IF cursor' = NoTx THEN "done" ELSE "next"
  /\ pageCount' = 1
  /\ start' = [chain |-> ToSet(chain), pool |-> pool]
  /\ UNCHANGED <<nodeVars, seenCursors>>

\* Mutant of MayContinue: no page limit.
MayContinueLong == phase = "next" /\ cursor \notin seenCursors

MayContinue == phase = "next" /\ cursor \notin seenCursors /\ pageCount < PageLimit

\* Mutants of ReadNext: a short page ends the history unread; no cursor is
\* remembered and no page counted.
ReadNextShort ==
  /\ MayContinue
  /\ seenCursors' = seenCursors \cup {cursor}
  /\ \E page \in ChainAnswers(cursor) :
       IF Len(page) < PageSize
       THEN phase' = "done" /\ UNCHANGED <<got, cursor, pageCount>>
       ELSE AddPage({}, page) /\ pageCount' = pageCount + 1 /\ UNCHANGED phase
  /\ UNCHANGED <<nodeVars, start>>
ReadNextUncounted ==
  /\ phase = "next"
  /\ \E page \in ChainAnswers(cursor) :
       IF page = <<>>
       THEN phase' = "done" /\ UNCHANGED <<got, cursor>>
       ELSE AddPage({}, page) /\ UNCHANGED phase
  /\ UNCHANGED <<nodeVars, seenCursors, pageCount, start>>

ReadNext ==
  /\ MayContinue
  /\ seenCursors' = seenCursors \cup {cursor}
  /\ \E page \in ChainAnswers(cursor) :
       IF page = <<>>
       THEN phase' = "done" /\ UNCHANGED <<got, cursor, pageCount>>
       ELSE AddPage({}, page) /\ pageCount' = pageCount + 1 /\ UNCHANGED phase
  /\ UNCHANGED <<nodeVars, start>>

\* Pagination does not advance, or is too long.
StopPaging ==
  /\ phase = "next" /\ ~MayContinue
  /\ phase' = "error"
  /\ UNCHANGED <<nodeVars, got, cursor, seenCursors, pageCount, start>>

\* A request fails after its retries, or its answer is malformed.
RequestFails ==
  /\ phase = "first" \/ MayContinue
  /\ phase' = "error"
  /\ UNCHANGED <<nodeVars, got, cursor, seenCursors, pageCount, start>>

Node == \E t \in Tx : Arrive(t) \/ Confirm(t) \/ Evict(t)
Reader == ReadFirst \/ ReadNext \/ StopPaging \/ RequestFails
Next == Node \/ Reader

Spec == Init /\ [][Next]_vars /\ WF_vars(Reader)

-----------------------------------------------------------------------------
(* A history that a faithful backend returned is complete: everything      *)
(* confirmed when the first page was answered is in it as confirmed,       *)
(* however many blocks arrive while the pages are read, and so is the      *)
(* mempool if it fits.                                                     *)
HistoryComplete ==
  faithful /\ phase = "done" =>
    /\ \A t \in start.chain : got[t] = "confirmed"
    /\ Cardinality(start.pool) <= PoolSize => \A t \in start.pool : got[t] # "absent"

(* The reading ends, with a history or an error, whatever the backend      *)
(* answers and however the chain grows.                                    *)
Terminates == <>(phase \in {"done", "error"})
=============================================================================

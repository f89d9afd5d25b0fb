---------------------------- MODULE VectorMemory ----------------------------
(***************************************************************************)
(* The vector memory of zone A (afe_vector_memory): a Chroma collection of *)
(* past debates, asked for precedents before a debate and given the        *)
(* outcome after it.  Chroma calls run in a worker thread that cannot be   *)
(* cancelled: when the caller's deadline passes the call is abandoned, and *)
(* a write may still land later.  A row keeps what queries select on (its  *)
(* regime and its age) and where it came from: an approved seed file, or a *)
(* debate whose models all answered and whose signal was delivered.        *)
(* Embeddings and distances only choose among the rows that match, so a    *)
(* query answers any of them.                                              *)
(***************************************************************************)
EXTENDS Integers, FiniteSets

CONSTANTS Retention,     \* debate_days, in units of time
          TopK,          \* min(memory_top_k, MAX_PRECEDENTS)
          CallTimeout,   \* CHROMA_TIMEOUT_S, the adapter's timeout_s
          Seeds          \* the entries of the seed file

ASSUME MemoryAssumption == Retention \in Nat /\ CallTimeout \in Nat

VARIABLES memory,   \* the rows of the collection
          landing   \* writes of abandoned worker threads

memVars == <<memory, landing>>

MemoryRecord(regime, earned) ==
  [kind |-> "debate", regime |-> regime, age |-> 0, earned |-> earned]

(* Seeds never expire; a debate is of no use from Retention on, and its    *)
(* age is not counted further.                                             *)
expired(row) == row.kind # "seed" /\ row.age >= Retention

Aged(row, d) ==
  IF row.kind = "seed" THEN row
  ELSE [row EXCEPT !.age = IF row.age + d > Retention THEN Retention
                           ELSE row.age + d]

(* An entry of the seed file is one record per regime it names; one bad    *)
(* entry, or a file nobody approved, and nothing is loaded.                *)
REGIMES == {"TRENDING_BULL", "TRENDING_BEAR", "HIGH_VOL_CHOP", "LOW_VOL_CHOP",
            "CRISIS"}
valid_entry(entry) == entry.regimes # {} /\ entry.regimes \subseteq REGIMES

records(entry) ==
  {[kind |-> "seed", regime |-> r, age |-> 0, earned |-> FALSE] :
     r \in entry.regimes}

seed_store(status, entries) ==
  IF status = "APPROVED" /\ (\A e \in entries : valid_entry(e))
  THEN UNION {records(e) : e \in entries} ELSE {}

MemInit == \E status \in {"APPROVED", "DRAFT"} :
             memory = seed_store(status, Seeds) /\ landing = {}

build_where(row, regime) == ~expired(row) /\ row.regime = regime

query(regime) == SUBSET {row \in memory : build_where(row, regime)}

(* AsyncMemoryAdapter.recall: the nearest in the same regime, any symbol.  *)
recall(regime) == {P \in query(regime) : Cardinality(P) <= TopK}

RunTimes_NoDeadline == 0..(2 * CallTimeout)   \* Slip
(* How long a call through the adapter may keep its caller.                *)
RunTimes == 0..CallTimeout

MemPasses(d) ==
  /\ memory' = {Aged(row, d) : row \in memory}
  /\ landing' = {Aged(row, d) : row \in landing}

(* ChromaStore.add through AsyncMemoryAdapter._run, d after the call: the  *)
(* row is in, the call failed, or it was abandoned at the deadline.        *)
add(row, d) ==
  \/ /\ memory' = {Aged(r, d) : r \in memory} \cup {row}
     /\ landing' = {Aged(r, d) : r \in landing}
  \/ MemPasses(d)
  \/ /\ d >= CallTimeout
     /\ memory' = {Aged(r, d) : r \in memory}
     /\ landing' = {Aged(r, d) : r \in landing} \cup {row}

(* AsyncMemoryAdapter.write_debate: one row of kind debate_outcome.        *)
write_debate(regime, earned, d) == add(MemoryRecord(regime, earned), d)

(* An abandoned write reaches the collection, or its thread dies.          *)
Land == \E row \in landing :
          /\ landing' = landing \ {row}
          /\ memory' \in {memory, memory \cup {row}}

=============================================================================

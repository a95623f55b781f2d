-------------------------------- MODULE Ingestion --------------------------------
(***************************************************************************)
(* IngestionService.ingest: a raw payload is parsed, counted, validated    *)
(* and submitted as one batch job.  A payload is told apart by its form    *)
(* and by its lines (or, of an array, its elements):                       *)
(*   "good", "bad"    an object that is a transaction, or is not           *)
(*   "scalar"         another JSON value than an object or array           *)
(*   "array"          an array of one transaction                          *)
(*   "spread"         a transaction whose JSON takes several lines         *)
(*   "split"          one on one line, with a separator that splitlines    *)
(*                    takes for a line's end (U+2028) within a string      *)
(*   "blank"          white space                                          *)
(*   "broken"         no JSON                                              *)
(***************************************************************************)
EXTENDS Integers, Sequences, FiniteSets, SequencesExt

CONSTANTS
  MaxRecords,  \* settings.max_ingest_records
  MaxItems     \* bound: lines or elements of a payload

ASSUME IngestionAssumption == MaxRecords \in Nat \ {0} /\ MaxItems \in Nat

VARIABLES
  payload,    \* its form and its lines or elements
  reply,      \* the status the client is answered
  submitted   \* the transactions of the job

ingestionVars == <<payload, reply, submitted>>

Lines == {"good", "bad", "scalar", "array", "spread", "split", "blank", "broken"}
Payloads ==
  [form : {"lines"}, items : BoundedSeq(Lines, MaxItems)]
    \cup [form : {"array"}, items : BoundedSeq(Lines \ {"blank"}, MaxItems)]
    \cup {[form |-> "undecodable", items |-> <<>>]}

Unparsable == <<"unparsable">>

\* json.loads(text), of a text that is one JSON value.
Loaded(value) ==
  CASE value = "array" -> <<"good">>
    [] value = "scalar" -> Unparsable
    [] value \in {"good", "spread", "split"} -> <<"good">>
    [] value = "bad" -> <<"bad">>

\* Variant: a line that cannot be parsed is left out.
ParseGoodLines(lines) == SelectSeq(lines, LAMBDA l : l \in {"good", "bad", "scalar", "array"})
\* text.splitlines(), and json.loads of each line; one that is no object is a record too.
ParseLines(lines) ==
  IF \E i \in DOMAIN lines : lines[i] \in {"spread", "split", "broken"} THEN Unparsable
  ELSE [i \in DOMAIN lines |-> IF lines[i] = "good" THEN "good" ELSE "bad"]

\* The lines that are not empty when stripped.
Stripped(lines) ==
  LET kept[i \in 0..Len(lines)] ==
        IF i = 0 THEN <<>>
        ELSE IF lines[i] = "blank" THEN kept[i - 1] ELSE Append(kept[i - 1], lines[i])
  IN  kept[Len(lines)]

\* parse_transaction_records.
Parse(p) ==
  LET lines == Stripped(p.items) IN
  CASE p.form = "undecodable" -> Unparsable
    [] p.form = "array" ->
         IF \E i \in DOMAIN p.items : p.items[i] = "broken" THEN Unparsable
         ELSE [i \in DOMAIN p.items |->
                 IF p.items[i] \in {"good", "spread", "split"} THEN "good" ELSE "bad"]
    [] p.form = "lines" ->
         IF lines = <<>> THEN <<>>
         ELSE IF Len(lines) = 1 /\ lines[1] # "broken" THEN Loaded(lines[1])
         ELSE ParseLines(lines)

Receive ==
  /\ payload = <<>>
  /\ \E p \in Payloads : payload' = <<p>>
  /\ UNCHANGED <<reply, submitted>>

Answered(status) == reply' = status /\ UNCHANGED <<payload, submitted>>

\* IngestionService.ingest, and the endpoint that answers its errors.
Ingest ==
  LET records == Parse(payload[1]) IN
  /\ payload # <<>> /\ reply = 0
  /\ \/ records \in {Unparsable, <<>>} /\ Answered(422)
     \/ records \notin {Unparsable, <<>>} /\ Len(records) > MaxRecords /\ Answered(413)
     \/ /\ records \notin {Unparsable, <<>>} /\ Len(records) <= MaxRecords
        /\ \E i \in DOMAIN records : records[i] = "bad"
        /\ Answered(422)
     \/ /\ records \notin {Unparsable, <<>>} /\ Len(records) <= MaxRecords
        /\ \A i \in DOMAIN records : records[i] = "good"
        /\ reply' = 202
        /\ submitted' = records
        /\ UNCHANGED payload

IngestionInit == payload = <<>> /\ reply = 0 /\ submitted = <<>>
IngestionNext == Receive \/ Ingest
IngestionSpec == IngestionInit /\ [][IngestionNext]_ingestionVars

-----------------------------------------------------------------------------
(* Correctness.                                                            *)

\* How many records a payload is taken for.
Size(p) == Cardinality({i \in DOMAIN p.items : p.items[i] # "blank"})

\* "a JSON array, a single JSON object, or newline-delimited JSON (one transaction per
\* line)", of valid transactions; a payload of one line may also be an array.
Accepted(p) ==
  LET Occur == {p.items[i] : i \in DOMAIN p.items} \ {"blank"} IN
  /\ Size(p) > 0
  /\ \/ p.form = "array" /\ Occur \subseteq {"good", "spread", "split"}
     \/ p.form = "lines" /\ Occur \subseteq {"good", "split"}
     \/ p.form = "lines" /\ Size(p) = 1 /\ Occur \subseteq {"spread", "array"}

\* Several lines, one of which splitlines cuts in two.
Severed(p) ==
  p.form = "lines" /\ Size(p) > 1 /\ \E i \in DOMAIN p.items : p.items[i] = "split"

\* README.md, Batch jobs: a payload is submitted whole or refused whole, and refused
\* only when it is too large, malformed, invalid or severed.
IngestedWhole ==
  reply # 0 =>
    LET p == payload[1] IN
    /\ reply = 202 <=> Accepted(p) /\ ~Severed(p) /\ Size(p) <= MaxRecords
    /\ Accepted(p) /\ ~Severed(p) /\ Size(p) > MaxRecords => reply = 413
    /\ reply = 413 => Size(p) > MaxRecords
    /\ Len(submitted) = IF reply = 202 THEN Size(p) ELSE 0

\* README.md, Batch jobs: POST /v1/transactions/ingest "accepts ... newline-delimited
\* JSON (one transaction per line)".
AcceptsDocumented ==
  reply # 0 /\ Accepted(payload[1]) /\ Size(payload[1]) <= MaxRecords => reply = 202
================================================================================

----------------------------- MODULE PriceCrawl -----------------------------
(***************************************************************************)
(* src/sandwich-intent/0_crawl_token_price.py: the table of token prices.  *)
(* A run asks for the tokens that have no row yet (with --retry-empty, no  *)
(* price yet), batch by batch, and rewrites the table once at its end.     *)
(***************************************************************************)
EXTENDS Integers, Sequences, SequencesExt, FiniteSetsExt

CONSTANTS
  Ranking,      (* the tokens of sandwiches, most frequent first           *)
  Pinned,       (* SOL and wrapped SOL, priced by --sol-price              *)
  Quotable,     (* the tokens the price service can price                  *)
  BatchMax,
  PriceAttempts,  (* the attempts of fetch_batch                           *)
  PriceArgs,    (* the values of [top : --top-n, retry : --retry-empty]    *)
  OldPrices,    (* the tables a behaviour may start from                   *)
  MaxPriceFaults, MaxPriceCrashes   (* bounds                              *)

Token == ToSet(Ranking) \cup Pinned

ASSUME PriceAssumption ==
  /\ Quotable \subseteq Token
  /\ BatchMax \in Nat \ {0} /\ PriceAttempts \in Nat \ {0}
  /\ PriceArgs \subseteq [top : Nat, retry : BOOLEAN]
  /\ MaxPriceFaults \in Nat /\ MaxPriceCrashes \in Nat

VARIABLES
  args,
  prices,       (* the table on file                                       *)
  noByte,       (* the file is there and holds nothing at all              *)
  blank,        (* the tokens whose row lost, or never had, an answer of   *)
                (* the service behind its missing price                    *)
  pricing,      (* where the run is                                        *)
  pending,      (* the tokens still to be asked for                        *)
  fetched,      (* what the answers of this run say                        *)
  tries,        (* failed attempts for the batch                           *)
  priceFaults, priceCrashes

priceVars == <<args, prices, noByte, blank, pricing, pending, fetched, tries,
               priceFaults, priceCrashes>>
table == <<prices, noByte, blank>>

NoRows == [t \in Token |-> "absent"]

-----------------------------------------------------------------------------
FirstOf(n, s) == SubSeq(s, 1, Min({n, Len(s)}))

Asked == IF args.top = 0 THEN Ranking ELSE FirstOf(args.top, Ranking)

Skip == {t \in Token : prices[t] = "priced" \/ (prices[t] = "unpriced" /\ ~args.retry)}

Pending == SelectSeq(Asked, LAMBDA t : t \notin Skip \cup Pinned)

Batch == ToSet(FirstOf(BatchMax, pending))
RestOf(s) == SubSeq(s, BatchMax + 1, Len(s))

(* The new rows replace those of the same token; the pinned ones come last.*)
PriceTable ==
  [t \in Token |->
     IF t \in Pinned THEN "priced"
     ELSE IF fetched[t] # "absent" THEN fetched[t] ELSE prices[t]]

-----------------------------------------------------------------------------
PriceInit ==
  /\ args \in PriceArgs
  /\ prices \in OldPrices /\ noByte = FALSE
  /\ blank = {t \in Token : prices[t] = "unpriced"}
  /\ pricing = "start"
  /\ pending = <<>> /\ fetched = NoRows /\ tries = 0
  /\ priceFaults = 0 /\ priceCrashes = 0

(* load_existing: pandas raises on a file without a byte.                  *)
StartPrices ==
  /\ pricing = "start"
  /\ IF noByte
     THEN pricing' = "raised" /\ UNCHANGED pending
     ELSE pricing' = "fetch" /\ pending' = Pending
  /\ fetched' = NoRows /\ tries' = 0
  /\ UNCHANGED <<args, table, priceFaults, priceCrashes>>

(* 200: a token the answer leaves out is recorded without a price.         *)
Priced ==
  /\ pricing = "fetch" /\ pending # <<>>
  /\ fetched' = [t \in Token |->
                   IF t \notin Batch THEN fetched[t]
                   ELSE IF t \in Quotable THEN "priced" ELSE "unpriced"]
  /\ pending' = RestOf(pending) /\ tries' = 0
  /\ UNCHANGED <<args, table, pricing, priceFaults, priceCrashes>>

(* Mutant: a failed batch is recorded as unpriced.                         *)
BatchFailsUnpriced ==
  /\ pricing = "fetch" /\ pending # <<>> /\ priceFaults < MaxPriceFaults
  /\ priceFaults' = priceFaults + 1
  /\ fetched' = [t \in Token |-> IF t \in Batch THEN "unpriced" ELSE fetched[t]]
  /\ pending' = RestOf(pending) /\ tries' = 0
  /\ UNCHANGED <<args, table, pricing, priceCrashes>>

(* A network error, 429 or 503 is tried again; the last attempt, or any    *)
(* other status at once, gives the batch up: got is None.                  *)
BatchFails ==
  /\ pricing = "fetch" /\ pending # <<>> /\ priceFaults < MaxPriceFaults
  /\ priceFaults' = priceFaults + 1
  /\ \/ tries + 1 < PriceAttempts /\ tries' = tries + 1 /\ UNCHANGED pending
     \/ pending' = RestOf(pending) /\ tries' = 0
  /\ UNCHANGED <<args, table, pricing, fetched, priceCrashes>>

(* to_csv opens the file, which empties it, and writes it.                 *)
OpenPrices ==
  /\ pricing = "fetch" /\ pending = <<>>
  /\ pricing' = "write"
  /\ UNCHANGED <<args, table, pending, fetched, tries, priceFaults,
                 priceCrashes>>

WritePrices ==
  /\ pricing = "write"
  /\ prices' = PriceTable /\ noByte' = FALSE
  /\ blank' = {t \in blank : prices'[t] = "unpriced" /\ fetched[t] = "absent"}
  /\ pricing' = "done"
  /\ UNCHANGED <<args, pending, fetched, tries, priceFaults, priceCrashes>>

(* "Re-run to pick them up."                                               *)
RerunPrices ==
  /\ pricing = "done"
  /\ \E t \in ToSet(Pending) : fetched[t] = "absent"
  /\ pricing' = "start"
  /\ UNCHANGED <<args, table, pending, fetched, tries, priceFaults,
                 priceCrashes>>

(* What a killed write leaves: no byte, or some of the rows, the last of   *)
(* them perhaps cut before its price.                                      *)
Remains ==
  LET rows == {t \in Token : PriceTable[t] # "absent"}
  IN  {[t \in Token |-> IF t \in cut THEN "unpriced"
                        ELSE IF t \in kept THEN PriceTable[t] ELSE "absent"] :
         kept \in SUBSET rows, cut \in {{}} \cup {{t} : t \in rows}}

(* The process dies, as it also does on an answer that is not JSON.        *)
CrashPrices ==
  /\ pricing \in {"fetch", "write"} /\ priceCrashes < MaxPriceCrashes
  /\ priceCrashes' = priceCrashes + 1
  /\ pricing' = "start"
  /\ IF pricing = "write"
     THEN \/ noByte' = TRUE /\ prices' = NoRows /\ blank' = {}
          \/ /\ prices' \in Remains /\ noByte' = FALSE
             /\ blank' = {t \in Token :
                            /\ prices'[t] = "unpriced"
                            /\ t \in blank \/ PriceTable[t] = "priced"}
     ELSE UNCHANGED table
  /\ UNCHANGED <<args, pending, fetched, tries, priceFaults>>

PriceStep == StartPrices \/ Priced \/ OpenPrices \/ WritePrices \/ RerunPrices

PriceEnded == pricing \in {"done", "raised"}

-----------------------------------------------------------------------------
(* While errors end and someone re-runs it as it asks, every token of the  *)
(* ranking that can be priced is priced for good: a batch that failed is   *)
(* never taken for one without prices ("recording a failed batch as        *)
(* unpriced would permanently mark 100 tokens as unquotable", fetch_batch).*)
(* Not so after a write that left no byte, which no later run can load,    *)
(* nor, without --retry-empty, for a row that was cut or is older than the *)
(* quotation.                                                              *)
EventuallyQuoted ==
  <>[](\/ pricing = "raised"
       \/ \A t \in ToSet(Asked) \cap (Quotable \cup Pinned) :
            prices[t] = "priced" \/ (t \in blank /\ ~args.retry))
=============================================================================

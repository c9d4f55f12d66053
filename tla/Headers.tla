------------------------------- MODULE Headers ------------------------------
(***************************************************************************)
(* Verification and import of a batch of headers (VerifyHeaders,           *)
(* getValSetFromChain, verifyCommittedSeals, insertChain).  The verifying  *)
(* goroutine runs ahead of the importer, so the header that carries the    *)
(* validators of a block may be in the chain already or only in the batch. *)
(*                                                                         *)
(* A header says who sealed it, which validators sealed its commit, and,   *)
(* at the end of an epoch, who the next validators are.  Hashes are        *)
(* abstracted to linked: the parent hash is that of the header before it.  *)
(* Header times and a batch that overlaps the chain are left out.          *)
(***************************************************************************)
EXTENDS ValidatorSet, Sequences, FiniteSets, Functions

CONSTANTS
  Epoch,
  Genesis,   \* validators in the genesis header
  Headers,   \* headers that a peer may send, but for the validators in them
  ValSets,   \* validators that a header may carry
  MaxNumber, \* bounds the chain
  MaxBatch   \* bounds a batch

VARIABLES
  chain,     \* the headers inserted, by number
  batch,     \* the headers being imported
  base,      \* number of the header before the batch
  verified,  \* how many of them the goroutine has verified
  results,   \* verdicts that the importer has not taken
  importer,  \* idle, or importing
  rejected   \* the header that ended the last import, if one did

headersVars == <<chain, batch, base, verified, results, importer, rejected>>

HeadersInit ==
  /\ chain = <<>> /\ batch = <<>> /\ base = 0 /\ verified = 0
  /\ results = <<>> /\ importer = "idle" /\ rejected = <<>>
-----------------------------------------------------------------------------
GetCheckpointNumber(epochDuration, blockNumber) ==
  IF blockNumber = 0 \/ blockNumber < epochDuration THEN 0
  ELSE epochDuration * ((blockNumber - 1) \div epochDuration)

\* StakingValidator.GetValSet: from the chain.
GetValSet(number) ==
  LET checkPoint == GetCheckpointNumber(Epoch, number)
  IN  IF checkPoint = 0 THEN Genesis ELSE chain[checkPoint].vals

\* Mutant: the walk starts at the header itself.
TransitionAtHeader(number) == CHOOSE m \in base + 1 .. number :
  m % Epoch = 0 /\ \A k \in m + 1 .. number : k % Epoch # 0

\* The walk back through the batch to the last header that ends an epoch.
TransitionInBatch(number) == CHOOSE m \in base + 1 .. number - 1 :
  m % Epoch = 0 /\ \A k \in m + 1 .. number - 1 : k % Epoch # 0

WalkIsLinked(number) ==
  \A k \in TransitionInBatch(number) + 1 .. number : batch[k - base].linked

\* The validator set of a header of the batch, empty when there is an error.
getValSetFromChain(number) ==
  IF Len(chain) >= GetCheckpointNumber(Epoch, number) THEN GetValSet(number)
  ELSE IF WalkIsLinked(number) THEN batch[TransitionInBatch(number) - base].vals
  ELSE {}

\* Every seal removes its validator from a copy of the set.
verifyCommittedSeals(seals, vals) ==
  /\ seals # <<>> /\ IsInjective(seals) /\ Range(seals) \subseteq vals
  /\ Len(seals) >= MinMajority(Cardinality(vals))

verifyProposalSeal(header, vals) == header.sealer \in vals

verifyHeader(number) ==
  LET header == batch[number - base]
      vals   == getValSetFromChain(number)
  IN  /\ header.linked
      /\ verifyProposalSeal(header, vals) /\ verifyCommittedSeals(header.seals, vals)
-----------------------------------------------------------------------------
\* The header h with the validators v in its extra data.
Carries(h, v) == [linked |-> h.linked, sealer |-> h.sealer, seals |-> h.seals, vals |-> v]

EpochEnds(k) == { i \in 1 .. k : (Len(chain) + i) % Epoch = 0 }

\* InsertChain with k headers that follow the chain; a header carries
\* validators when it ends an epoch.
InsertChain(k) ==
  /\ importer = "idle" /\ importer' = "importing"
  /\ Len(chain) + k <= MaxNumber
  /\ \E headers \in [1 .. k -> Headers], vals \in [EpochEnds(k) -> ValSets] :
       batch' = [i \in 1 .. k |-> Carries(headers[i], IF i \in EpochEnds(k) THEN vals[i] ELSE {})]
  /\ base' = Len(chain)
  /\ verified' = 0 /\ results' = <<>> /\ rejected' = <<>> /\ UNCHANGED chain

\* The goroutine of VerifyHeaders verifies the next header.
VerifyHeaders ==
  /\ importer = "importing" /\ verified < Len(batch)
  /\ verified' = verified + 1
  /\ results' = Append(results, verifyHeader(base + verified + 1))
  /\ UNCHANGED <<chain, batch, base, importer, rejected>>

Following == Len(chain) - base + 1

Idle == importer' = "idle" /\ batch' = <<>> /\ base' = 0 /\ verified' = 0 /\ results' = <<>>

\* The importer takes the next verdict: the block is written, or the import ends.
TakeVerdict ==
  /\ importer = "importing" /\ results # <<>>
  /\ \/ /\ Head(results) /\ results' = Tail(results) /\ chain' = Append(chain, batch[Following])
        /\ UNCHANGED <<batch, base, verified, importer, rejected>>
     \/ ~ Head(results) /\ Idle /\ rejected' = <<batch[Following]>> /\ UNCHANGED chain

\* The end of the batch, or a block that fails: the goroutine is aborted.
ImportEnds == importer = "importing" /\ Idle /\ UNCHANGED <<chain, rejected>>

HeadersNext ==
  \/ VerifyHeaders \/ TakeVerdict \/ ImportEnds
  \/ \E k \in 1 .. MaxBatch : InsertChain(k)

HeadersSpec == HeadersInit /\ [][HeadersNext]_headersVars
-----------------------------------------------------------------------------
(* What a header has to satisfy, said without batches. *)

\* The validators of block number: those in the last header before it that
\* ends an epoch.
ValidatorsOf(number) ==
  LET ends == { m \in 1 .. number - 1 : m % Epoch = 0 }
  IN  IF ends = {} THEN Genesis
      ELSE chain[CHOOSE m \in ends : \A k \in ends : k <= m].vals

Sealers(header, number) == Range(header.seals) \cap ValidatorsOf(number)

(***************************************************************************)
(* Every header in the chain is sealed by a quorum of different validators *)
(* of its own epoch, whether these were read from the chain or from the    *)
(* batch while the importer was behind (verifyCommittedSeals,              *)
(* getValSetFromChain).                                                    *)
(***************************************************************************)
ChainIsCertified ==
  \A n \in DOMAIN chain :
    Cardinality(Sealers(chain[n], n)) >= MinMajority(Cardinality(ValidatorsOf(n)))

(***************************************************************************)
(* A header that is linked to the chain, sealed by a validator and by a    *)
(* quorum of different ones is never the one that ends an import: an epoch *)
(* that changes inside the batch is followed (getValSetFromChain).         *)
(***************************************************************************)
GoodIsNotRejected ==
  \A header \in Range(rejected) :
    LET n == Len(chain) + 1
    IN  ~ (/\ header.linked /\ header.sealer \in ValidatorsOf(n)
           /\ Cardinality(Sealers(header, n)) = Len(header.seals)
           /\ Len(header.seals) >= MinMajority(Cardinality(ValidatorsOf(n))))
-----------------------------------------------------------------------------
(* Why it holds. *)

\* The constants as they come from the configuration and from the decoder.
HeadersAssumption ==
  /\ Epoch \in Nat \ {0} /\ MaxBatch \in Nat
  /\ IsFiniteSet(Genesis) /\ \A v \in ValSets : IsFiniteSet(v)
  /\ \A h \in Headers : h.linked \in BOOLEAN /\ h.seals \in Seq(Range(h.seals))

\* The headers of a batch.
Decoded == { Carries(h, v) : h \in Headers, v \in ValSets \cup {{}} }

\* The header of a number, in the chain or still in the batch.
HeaderAt(n) == IF n <= Len(chain) THEN chain[n] ELSE batch[n - base]

\* The validators of a number, as soon as the header that carries them is known.
Certifiers(n) ==
  LET c == GetCheckpointNumber(Epoch, n)
  IN  IF c = 0 THEN Genesis ELSE HeaderAt(c).vals

\* What verifyHeader asks, of validators that are known.
Certified(header, vals) ==
  header.linked /\ verifyProposalSeal(header, vals) /\ verifyCommittedSeals(header.seals, vals)

(***************************************************************************)
(* A verdict that waits for the importer is right about the chain as it    *)
(* will be when the importer comes to it.  A header may be refused only    *)
(* because one before it in the batch is not linked, but then the importer *)
(* does not come to it.                                                    *)
(***************************************************************************)
VerdictIsRight(n, verdict) ==
  /\ verdict => Certified(batch[n - base], Certifiers(n))
  /\ ~ verdict => \/ ~ Certified(batch[n - base], Certifiers(n))
                  \/ \E k \in base + 1 .. n - 1 : ~ batch[k - base].linked

\* While a batch is imported, the chain has its headers before Following, and the
\* verdicts are for Following and those after it.
Importing ==
  /\ base <= Len(chain) /\ Len(chain) + Len(results) = base + verified
  /\ verified <= Len(batch) /\ rejected = <<>>
  /\ \A n \in base + 1 .. Len(chain) : batch[n - base] = chain[n]
  /\ \A i \in 1 .. Len(results) : VerdictIsRight(Len(chain) + i, results[i])

(***************************************************************************)
(* The headers in the chain are certified by the validators of their       *)
(* epoch, the one that ended the last import was not, and verdicts under   *)
(* way are right: inductive.                                               *)
(***************************************************************************)
HeadersInv ==
  /\ chain \in Seq(Decoded) /\ batch \in Seq(Decoded) /\ results \in Seq(BOOLEAN)
  /\ base \in Nat /\ verified \in Nat
  /\ importer \in {"idle", "importing"} /\ (importer = "importing" => Importing)
  /\ \A n \in 1 .. Len(chain) : Certified(chain[n], Certifiers(n))
  /\ rejected = <<>> \/ \E h \in Decoded : rejected = <<h>>
                                 /\ ~ Certified(h, Certifiers(Len(chain) + 1))
=============================================================================

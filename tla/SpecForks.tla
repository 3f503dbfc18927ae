------------------------------ MODULE SpecForks ------------------------------
(***************************************************************************)
(* The forks and what each of them brings besides its documents: their     *)
(* table, the order in which documents are read, and the spec builders.    *)
(*                                                                         *)
(* A spec builder hands the compiler pieces of python text.  Of a piece    *)
(* the names it defines are kept, and the names that python looks up while *)
(* it executes the piece; what runs only when a function is called is not. *)
(***************************************************************************)
EXTENDS Naturals, SequencesExt

NoFork == "none"

ALL_FORKS ==
  <<"phase0", "altair", "bellatrix", "capella", "deneb", "electra", "fulu",
    "eip6800", "eip7441", "eip7732", "eip7805">>

Forks == ToSet(ALL_FORKS)

PREVIOUS_FORK_OF ==
  [phase0 |-> NoFork, altair |-> "phase0", bellatrix |-> "altair", capella |-> "bellatrix",
   deneb |-> "capella", electra |-> "deneb", fulu |-> "electra", eip6800 |-> "deneb",
   eip7441 |-> "capella", eip7732 |-> "electra", eip7805 |-> "electra"]

PostForkOf[a \in Forks] ==
  [b \in Forks |-> \/ a = b
                   \/ PREVIOUS_FORK_OF[a] # NoFork /\ PostForkOf[PREVIOUS_FORK_OF[a]][b]]

is_post_fork(a, b) == PostForkOf[a][b]

PrevForksOf[fork \in Forks] ==
  IF PREVIOUS_FORK_OF[fork] = NoFork THEN <<fork>>
  ELSE <<fork>> \o PrevForksOf[PREVIOUS_FORK_OF[fork]]

collect_prev_forks(fork) == PrevForksOf[fork]

-----------------------------------------------------------------------------
(* Documents.  A tree has for every fork its directories in the order of   *)
(* os.walk, each a set of files, and the one file outside of them.         *)

sort_key(a, b) == a.order < b.order \/ (a.order = b.order /\ a.path < b.path)

EXTRA_SPEC_FILES(tree, fork) == IF fork = "bellatrix" THEN <<tree.optimistic>> ELSE <<>>

FilesOf(tree, fork) ==
  FlattenSeq([i \in DOMAIN tree.directories[fork] |->
    SetToSortSeq({f \in tree.directories[fork][i] : f.markdown /\ ~ f.ignored}, sort_key)])
    \o EXTRA_SPEC_FILES(tree, fork)

get_md_doc_paths(tree, spec_fork) ==
  FlattenSeq([i \in DOMAIN ALL_FORKS |->
    IF is_post_fork(spec_fork, ALL_FORKS[i]) THEN FilesOf(tree, ALL_FORKS[i]) ELSE <<>>])

-----------------------------------------------------------------------------
(* The builders.  A piece of text that defines a name. *)
Piece(name, needs) == [name |-> name, needs |-> needs, text |-> name]

BaseSpecBuilder ==
  [imports |-> <<>>, classes |-> <<>>, preparations |-> <<>>, sundry_functions |-> <<>>,
   execution_engine_cls |-> <<>>, hardcoded_ssz_dep_constants |-> <<>>,
   hardcoded_func_dep_presets |-> <<>>, optimized |-> {},
   deprecate_constants |-> {}, deprecate_presets |-> {}]

(* The function of a document goes by another name, and one with a cache   *)
(* takes its place.                                                        *)
Cached(function, uncached, needs) ==
  << Piece(uncached, {function}), Piece(function, {uncached, "cache_this"} \cup needs) >>

CachedFunctions ==
  {"compute_shuffled_index", "get_total_active_balance", "get_base_reward", "get_committee_count_per_slot",
   "get_active_validator_indices", "get_beacon_committee", "get_matching_target_attestations",
   "get_matching_head_attestations", "get_attesting_indices"}

Phase0SpecBuilder ==
  [BaseSpecBuilder EXCEPT
     !.imports = <<"LRU", "dataclass", "Any", "Dict", "Set", "Sequence", "Tuple", "Optional", "TypeVar",
                  "NamedTuple", "hash_tree_root", "View", "boolean", "Container", "List", "Vector",
                  "uint8", "uint32", "uint64", "uint256", "Bytes1", "Bytes4", "Bytes32", "Bytes48",
                  "Bytes96", "Bitlist", "Bitvector", "bls", "hash">>,
     !.preparations = <<"SSZObject">>,
     !.sundry_functions =
        << Piece("get_eth1_data", {"Eth1Block", "Eth1Data"}), Piece("cache_this", {}) >>
        \o Cached("compute_shuffled_index", "_compute_shuffled_index", {"SLOTS_PER_EPOCH"})
        \o Cached("get_total_active_balance", "_get_total_active_balance", {})
        \o Cached("get_base_reward", "_get_base_reward", {})
        \o Cached("get_committee_count_per_slot", "_get_committee_count_per_slot", {"SLOTS_PER_EPOCH"})
        \o Cached("get_active_validator_indices", "_get_active_validator_indices", {})
        \o Cached("get_beacon_committee", "_get_beacon_committee", {"SLOTS_PER_EPOCH", "MAX_COMMITTEES_PER_SLOT"})
        \o Cached("get_matching_target_attestations", "_get_matching_target_attestations", {})
        \o Cached("get_matching_head_attestations", "_get_matching_head_attestations", {})
        \o Cached("get_attesting_indices", "_get_attesting_indices", {"SLOTS_PER_EPOCH", "MAX_COMMITTEES_PER_SLOT"})]

GeneralizedIndices(values) ==
  [i \in DOMAIN values |-> [name |-> values[i][1], def |-> [text |-> values[i][2], mentions |-> {"GeneralizedIndex"}]]]

AltairSpecBuilder ==
  [BaseSpecBuilder EXCEPT
     !.imports = <<"phase0", "NewType", "PyUnion", "build_proof", "Path">>,
     !.preparations = <<"SSZVariableName", "GeneralizedIndex">>,
     !.sundry_functions = << Piece("get_generalized_index", {"Any", "PyUnion", "SSZVariableName", "GeneralizedIndex"}),
                             Piece("compute_merkle_proof", {"SSZObject", "GeneralizedIndex", "Bytes32"}) >>,
     !.hardcoded_ssz_dep_constants = GeneralizedIndices(
        << <<"FINALIZED_ROOT_GINDEX", "105">>, <<"CURRENT_SYNC_COMMITTEE_GINDEX", "54">>,
           <<"NEXT_SYNC_COMMITTEE_GINDEX", "55">> >>),
     !.optimized = {"eth_aggregate_pubkeys"}]

(* A preset that functions depend on, with its value. *)
FromPreset(name) == << [name |-> name, def |-> [text |-> name, mentions |-> {}]] >>

(* The engine that stands in for an execution client. *)
Engine(needs) ==
  << Piece("NoopExecutionEngine",
           {"ExecutionEngine", "ExecutionPayload", "Hash32", "Optional", "PayloadAttributes", "PayloadId",
            "GetPayloadResponse", "NewPayloadRequest"} \cup needs),
     Piece("EXECUTION_ENGINE", {"NoopExecutionEngine"}) >>

BellatrixSpecBuilder ==
  [BaseSpecBuilder EXCEPT
     !.imports = <<"Protocol", "altair", "Bytes8", "Bytes20", "ByteList", "ByteVector">>,
     !.sundry_functions =
        << Piece("ExecutionState", {"Any"}),
           Piece("get_pow_block", {"Bytes32", "Optional", "PowBlock"}),
           Piece("get_execution_state", {"Bytes32", "ExecutionState"}),
           Piece("get_pow_chain_head", {"PowBlock"}),
           Piece("validator_is_connected", {"ValidatorIndex"}) >>,
     !.execution_engine_cls = Engine({})]

CapellaSpecBuilder ==
  [BaseSpecBuilder EXCEPT
     !.imports = <<"bellatrix">>,
     !.hardcoded_ssz_dep_constants = GeneralizedIndices(<< <<"EXECUTION_PAYLOAD_GINDEX", "25">> >>)]

DenebSpecBuilder ==
  [BaseSpecBuilder EXCEPT
     !.imports = <<"capella">>,
     !.classes = << Piece("BLSFieldElement", {"bls"}), Piece("Polynomial", {"Optional", "Sequence", "BLSFieldElement"}) >>,
     !.preparations = <<"T", "TPoint">>,
     !.sundry_functions = << Piece("retrieve_blobs_and_proofs", {"Root", "Tuple", "Sequence", "Blob", "KZGProof"}) >>,
     !.execution_engine_cls = Engine({"Root"}),
     !.hardcoded_func_dep_presets = FromPreset("KZG_COMMITMENT_INCLUSION_PROOF_DEPTH")]

ElectraSpecBuilder ==
  [BaseSpecBuilder EXCEPT
     !.imports = <<"deneb", "ssz_serialize", "ssz_deserialize">>,
     !.hardcoded_ssz_dep_constants = GeneralizedIndices(
        << <<"FINALIZED_ROOT_GINDEX_ELECTRA", "169">>, <<"CURRENT_SYNC_COMMITTEE_GINDEX_ELECTRA", "86">>,
           <<"NEXT_SYNC_COMMITTEE_GINDEX_ELECTRA", "87">> >>),
     !.execution_engine_cls = Engine({"Root", "Sequence"})]

FuluSpecBuilder ==
  [BaseSpecBuilder EXCEPT
     !.imports = <<"frozendict", "electra">>,
     !.classes = << Piece("PolynomialCoeff", {"Sequence", "BLSFieldElement"}),
                    Piece("Coset", {"Optional", "Sequence", "BLSFieldElement"}),
                    Piece("CosetEvals", {"Optional", "Sequence", "BLSFieldElement"}) >>,
     !.sundry_functions = << Piece("retrieve_column_sidecars", {"Root", "Sequence", "DataColumnSidecar"}) >>,
     !.hardcoded_func_dep_presets = FromPreset("KZG_COMMITMENTS_INCLUSION_PROOF_DEPTH")]

EIP6800SpecBuilder == [BaseSpecBuilder EXCEPT !.imports = <<"deneb", "Bytes31">>]

EIP7441SpecBuilder ==
  [BaseSpecBuilder EXCEPT
     !.imports = <<"capella", "curdleproofs", "json">>,
     !.hardcoded_ssz_dep_constants = GeneralizedIndices(<< <<"EXECUTION_PAYLOAD_GINDEX", "41">> >>)]

EIP7732SpecBuilder ==
  [BaseSpecBuilder EXCEPT
     !.imports = <<"electra">>,
     !.sundry_functions = << Piece("concat_generalized_indices", {"GeneralizedIndex"}) >>,
     !.deprecate_constants = {"EXECUTION_PAYLOAD_GINDEX"},
     !.deprecate_presets = {"KZG_COMMITMENT_INCLUSION_PROOF_DEPTH"}]

EIP7805SpecBuilder ==
  [BaseSpecBuilder EXCEPT
     !.imports = <<"electra">>,
     !.execution_engine_cls = Engine({"Root", "Sequence", "Transaction"})]

spec_builders ==
  [phase0 |-> Phase0SpecBuilder, altair |-> AltairSpecBuilder, bellatrix |-> BellatrixSpecBuilder,
   capella |-> CapellaSpecBuilder, deneb |-> DenebSpecBuilder, electra |-> ElectraSpecBuilder,
   fulu |-> FuluSpecBuilder, eip6800 |-> EIP6800SpecBuilder, eip7441 |-> EIP7441SpecBuilder,
   eip7732 |-> EIP7732SpecBuilder, eip7805 |-> EIP7805SpecBuilder]
===============================================================================

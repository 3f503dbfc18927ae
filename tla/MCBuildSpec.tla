----------------------------- MODULE MCBuildSpec -----------------------------
(***************************************************************************)
(* Every fork has one document with what its builder counts on.  Two more  *)
(* documents, of phase0 and of altair, vary: they redefine names of the    *)
(* base documents and of each other.  Besides them, every small document   *)
(* is a specification of phase0 by itself.                                 *)
(***************************************************************************)
EXTENDS BuildSpec, MCDocuments

CONSTANTS Phase0Extras, AltairExtras

Phase0Functions ==
  <<"compute_shuffled_index", "get_total_active_balance", "get_base_reward", "get_committee_count_per_slot",
    "get_active_validator_indices", "get_beacon_committee", "get_matching_target_attestations",
    "get_matching_head_attestations", "get_attesting_indices">>

BaseElements ==
  [phase0 |->
     << Table(<<Type("Slot", {"uint64"}, "v0"), Type("Root", {"Bytes32"}, "v0"), Type("Hash32", {"Bytes32"}, "v0"),
                Type("ValidatorIndex", {"uint64"}, "v0"), Constant("ENDIANNESS", {}, "v0"),
                PresetRow("SLOTS_PER_EPOCH", "uint64"), PresetRow("MAX_COMMITTEES_PER_SLOT", "uint64"),
                PresetRow("FIELD_ELEMENTS_PER_BLOB", "uint64"), PresetRow("GENESIS_DELAY", "uint64")>>),
        Code([i \in DOMAIN Phase0Functions |-> Function(Phase0Functions[i], {"Slot", "Sequence"}, "v0")]) >>
     \o Container_("Eth1Data", {"Root", "uint64", "Hash32"}, "v0")
     \o Container_("Eth1Block", {"uint64", "Root"}, "v0"),
   altair |-> << Table(<<GeneralizedIndex("FINALIZED_ROOT_GINDEX", "105"),
                         GeneralizedIndex("CURRENT_SYNC_COMMITTEE_GINDEX", "54"),
                         GeneralizedIndex("NEXT_SYNC_COMMITTEE_GINDEX", "55")>>),
                 Code(<<Function("eth_aggregate_pubkeys", {}, "v1")>>) >>,
   bellatrix |->
     << Table(<<Type("PayloadId", {"Bytes8"}, "v2"), Type("Transaction", {"ByteList"}, "v2")>>),
        Code(<<Dataclass("PayloadAttributes", {"uint64", "Hash32"}, "v2"),
               Dataclass("GetPayloadResponse", {"ExecutionPayload"}, "v2"),
               Dataclass("NewPayloadRequest", {"ExecutionPayload"}, "v2"),
               Method("notify_new_payload", "ExecutionEngine", {"ExecutionPayload"}, "v2")>>) >>
     \o Container_("ExecutionPayload", {"Hash32", "Transaction", "List"}, "v2")
     \o Container_("PowBlock", {"Hash32", "uint256"}, "v2"),
   capella |-> << Table(<<GeneralizedIndex("EXECUTION_PAYLOAD_GINDEX", "25")>>) >>,
   deneb |-> << Table(<<Type("KZGProof", {"Bytes48"}, "v4"), Type("Blob", {"ByteVector", "FIELD_ELEMENTS_PER_BLOB"}, "v4"),
                        Depth("KZG_COMMITMENT_INCLUSION_PROOF_DEPTH", "17")>>) >>,
   electra |-> << Table(<<GeneralizedIndex("FINALIZED_ROOT_GINDEX_ELECTRA", "169"),
                          GeneralizedIndex("CURRENT_SYNC_COMMITTEE_GINDEX_ELECTRA", "86"),
                          GeneralizedIndex("NEXT_SYNC_COMMITTEE_GINDEX_ELECTRA", "87")>>),
                  Code(<<Dataclass("NewPayloadRequest", {"ExecutionPayload", "Root"}, "v5"),
                         Method("notify_new_payload", "ExecutionEngine", {"ExecutionPayload", "Root"}, "v5"),
                         Method("is_valid_block_hash", "ExecutionEngine", {"ExecutionPayload"}, "v5")>>) >>,
   fulu |-> << Table(<<Depth("KZG_COMMITMENTS_INCLUSION_PROOF_DEPTH", "4")>>) >>
            \o Container_("DataColumnSidecar", {"KZGProof"}, "v6"),
   eip6800 |-> <<>>,
   eip7441 |-> << Table(<<GeneralizedIndex("EXECUTION_PAYLOAD_GINDEX", "41")>>) >>,
   eip7732 |-> <<>>,
   eip7805 |-> <<>>]

File(fork, path, order, elements) ==
  [fork |-> fork, path |-> path, order |-> order, markdown |-> TRUE, ignored |-> FALSE, elements |-> elements]
Base(fork) == File(fork, 2, 0, BaseElements[fork])

(* What the documents that vary may say. *)
Extra ==
  [none |-> <<>>,
   function |-> << Code(<<Function("get_head", {"Root"}, "e1"), Function("ceillog2", {}, "e1")>>) >>,
   functions |-> << Code(<<Function("get_head", {"Slot"}, "e2"), Function("get_base_reward", {"GENESIS_DELAY"}, "e2")>>) >>,
   container |-> Container_("Eth1Data", {"Root", "Checkpoint", "Deposit"}, "e3")
                 \o Container_("Checkpoint", {"Root", "GENESIS_DELAY"}, "e3")
                 \o Container_("Deposit", {"Checkpoint"}, "e3"),
   circle |-> Container_("Checkpoint", {"Deposit"}, "e4") \o Container_("Deposit", {"Checkpoint"}, "e4"),
   unknown |-> Container_("Checkpoint", {"Missing"}, "e5"),
   constant |-> << Table(<<Constant("BYTES_PER_BLOB", {"FIELD_ELEMENTS_PER_BLOB", "uint64"}, "e6"),
                           Constant("TIMELY", {"ENDIANNESS"}, "e6")>>) >>,
   constants |-> << Table(<<Constant("TWO_BLOBS", {"BYTES_PER_BLOB"}, "e7"), Constant("ENDIANNESS", {"TIMELY"}, "e7")>>) >>,
   types |-> << Table(<<Type("Cell", {"ByteVector", "BYTES_PER_BLOB"}, "e8"), Type("Slot", {"uint32"}, "e8")>>) >>,
   cells |-> << Table(<<Constant("BYTES_PER_BLOB", {}, "e9"), Type("Epoch", {"Slot"}, "e9")>>) >>,
   method |-> << Code(<<Method("notify", "Store", {"Root"}, "e10"), Dataclass("Store_", {"Root"}, "e10")>>) >>,
   gindex |-> << Table(<<GeneralizedIndex("FINALIZED_ROOT_GINDEX", "106"), PresetRow("GENESIS_DELAY", "Epoch")>>) >>,
   schedule |-> << [kind |-> "list-of-records", name |-> "BLOB_SCHEDULE"],
                   [Table(<<>>) EXCEPT !.types = {"uint64"}] >>,
   block |-> << Code(<<Dataclass("Store_", {"Root", "Checkpoint"}, "e11"), Function("get_head", {"Store_"}, "e11")>>) >>
             \o Container_("Checkpoint", {"Eth1Block", "Root"}, "e11")]

Tree(first, second) ==
  [directories |->
     [fork \in Forks |->
        CASE fork = "phase0" -> << {Base(fork), File(fork, 1, 2, Extra[first]),
                                    [Base(fork) EXCEPT !.ignored = TRUE, !.path = 3],
                                    [Base(fork) EXCEPT !.markdown = FALSE, !.path = 4]} >>
          [] fork = "altair" -> << {Base(fork)}, {File(fork, 1, 2, Extra[second])} >>
          [] OTHER -> << {Base(fork)} >>],
   optimistic |-> File("bellatrix", 5, 2, << Code(<<Function("is_optimistic", {"Root"}, "v2")>>) >>)]

Alone(doc) ==
  [directories |-> [fork \in Forks |-> IF fork = "phase0" THEN << {File(fork, 1, 2, doc)} >> ELSE <<>>],
   optimistic |-> File("bellatrix", 5, 2, <<>>)]

FileTrees ==
  [fork \in Forks |-> {Tree(first, second) : first \in Phase0Extras, second \in AltairExtras}
                      \cup (IF fork = "phase0" THEN {Alone(doc) : doc \in SmallDocuments} ELSE {})]
AllDocuments == SmallDocuments \cup {BaseElements[f] : f \in Forks} \cup {Extra[e] : e \in DOMAIN Extra}
                \cup { << Code(<<Function("is_optimistic", {"Root"}, "v2")>>) >> }
AllExtras == DOMAIN Extra

PresetNames == {"SLOTS_PER_EPOCH", "MAX_COMMITTEES_PER_SLOT", "FIELD_ELEMENTS_PER_BLOB",
                "KZG_COMMITMENT_INCLUSION_PROOF_DEPTH", "KZG_COMMITMENTS_INCLUSION_PROOF_DEPTH", "WIDTH"}
ConfigNames == {"GENESIS_DELAY", "MAX"}
YamlFile == [SLOTS_PER_EPOCH |-> "8", MAX_COMMITTEES_PER_SLOT |-> "4", FIELD_ELEMENTS_PER_BLOB |-> "4096",
             KZG_COMMITMENT_INCLUSION_PROOF_DEPTH |-> "17", KZG_COMMITMENTS_INCLUSION_PROOF_DEPTH |-> "4",
             GENESIS_DELAY |-> "300", BLOB_SCHEDULE |-> "the list", WIDTH |-> "4", MAX |-> "8"]
ScheduleNames == {"BLOB_SCHEDULE"}
PresetDirectories == { <<PresetNames>>, <<PresetNames, {"SLOTS_PER_EPOCH"}>> }
Constants == PresetNames \cup ConfigNames \cup {"ENDIANNESS", "BYTES_PER_BLOB", "TIMELY", "TWO_BLOBS"}
Ignored == {"List", "Bytes32", "Bytes48", "uint64", "uint256", "ByteList"}
===============================================================================

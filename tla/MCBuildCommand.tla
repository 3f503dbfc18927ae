---------------------------- MODULE MCBuildCommand ----------------------------
(* Commands for TLC: full builds, dry runs, and single forks with options  *)
(* that are right and wrong.                                               *)
EXTENDS BuildCommand

Pyspec(fork, docs, given) ==
  [name |-> "pyspec", spec_fork |-> fork, md_doc_paths |-> docs, build_targets |-> given]

AllCommands ==
  {[name |-> "build_py"], [name |-> "dry run"],
   Pyspec("altair", "default", <<"minimal", "mainnet">>),
   Pyspec("altair", "default", <<"mainnet", "tiny-net">>),
   Pyspec("altair", "given", <<"mainnet">>),
   Pyspec("phase0", "missing", <<"mainnet">>),
   Pyspec("frontier", "default", <<"mainnet">>),
   Pyspec("frontier", "given", <<"mainnet">>)}

CapellaForks == {"phase0", "altair", "bellatrix", "capella", "eip7441"}
===============================================================================

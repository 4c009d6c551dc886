---------------------------- MODULE PalmdocTest -----------------------------
(***************************************************************************)
(* TestCorrectness of compression_test.go: one record is compressed with   *)
(* the lookup resolver, then with the tree resolver, and the two outputs   *)
(* are compared.                                                           *)
(***************************************************************************)
EXTENDS Palmdoc, SequencesExt

VARIABLES
  expected,  \* the output of the first call, compression_test.go:16
  calls      \* how many calls have been made

testVars == <<vars, expected, calls>>

Output == FlattenSeq(out) \o tail

TestInit == Init /\ resolver = "lookup" /\ expected = <<>> /\ calls = 1

Running == Compress /\ UNCHANGED <<expected, calls>>

(* The second call, on the same record with the other resolver. *)
CallWithTree ==
  /\ pc = "done" /\ calls = 1
  /\ expected' = Output /\ calls' = 2
  /\ resolver' = "tree"
  /\ pc' = "loop" /\ i' = 0 /\ run' = 0
  /\ scan' = 0 /\ best' = -1 /\ foundLen' = 0
  /\ out' = <<>> /\ tail' = <<>> /\ starts' = <<>>
  /\ UNCHANGED <<arg, readerVars>>

TestNext == Running \/ CallWithTree

TestSpec == TestInit /\ [][TestNext]_testVars

(* "Difference in compression": the two resolvers compress to the same     *)
(* bytes (compression_test.go:18-19).                                      *)
SameOutput == calls = 2 /\ pc = "done" => Output = expected

(* One letter 24 times: the shortest records with a match that overlaps    *)
(* the text it stands for have such a repetition.                          *)
Repetition == {[k \in 1..25 |-> IF k = 25 THEN 0 ELSE 97]}
=============================================================================

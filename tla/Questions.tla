------------------------------ MODULE Questions ------------------------------
(***************************************************************************)
(* What happens to a question: it is searched in the corpus (Searching),   *)
(* its context is packed and its answer completed (Answering), or it is a  *)
(* discovery search whose snapshot is read page by page (Discovery).       *)
(*                                                                         *)
(* The three share no state: a search and a completion are functions of    *)
(* what they are given, and the store of snapshots is nobody else's.  A    *)
(* behaviour exercises one of them, and the others stay as they began.     *)
(***************************************************************************)
EXTENDS Searching, Answering, Discovery

VARIABLE concern   \* what a behaviour is about

(* The ids of generations are interchangeable.                             *)
SameGenerations == Permutations(Generations)

questionVars == <<searchingVars, answeringVars, dsVars, concern>>

NothingSearched == NoCorpus /\ world = NoWorld /\ query = NoQuery /\ result = NoResult
NothingAnswered == NoAnswering /\ case = << >> /\ policy = "none" /\ kept = {}

QuestionsInit ==
  /\ DsInit
  /\ \/ concern = "search" /\ SearchingInit /\ NothingAnswered
     \/ concern = "answer" /\ NothingSearched /\ AnsweringInit
     \/ concern = "discovery" /\ NothingSearched /\ NothingAnswered

QuestionsNext ==
  \/ concern = "search" /\ SearchingNext /\ UNCHANGED <<answeringVars, dsVars, concern>>
  \/ concern = "answer" /\ AnsweringNext /\ UNCHANGED <<searchingVars, dsVars, concern>>
  \/ concern = "discovery" /\ DsNext /\ UNCHANGED <<searchingVars, answeringVars, concern>>

QuestionsSpec == QuestionsInit /\ [][QuestionsNext]_questionVars

-----------------------------------------------------------------------------
(* Whatever collection is served, a result keeps to its scope, a trace     *)
(* gives only reasons that it proves, no company is left out of a          *)
(* decomposed answer, and a discovery search tells the truth about its     *)
(* scope.                                                                  *)
ResultsAreSound ==
  /\ concern = "search" => ResultsAreInScope /\ ReasonsAreProvable /\ EveryCompanyIsHeard
  /\ concern = "discovery" => SnapshotsAreSound

(* Every packing policy keeps what it promises to keep.                    *)
PackingIsSound == concern = "answer" => KeywordsKept /\ StructuredKept /\ BranchesKept

(* What is handed out was checked, by the probe, by the correction or by   *)
(* the assessment of a ranking, and is declined only when that is due.     *)
AnswersAreSound == concern = "answer" => ProbeIsSound /\ CorrectedIsSound /\ DeclinedTwice /\ RankingIsComparable
=============================================================================

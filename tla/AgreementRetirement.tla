------------------------- MODULE AgreementRetirement --------------------------
(***************************************************************************)
(* Retiring the contract agreements of one asset on the engine's connector *)
(* (steps/connector/retirement): the agreements are collected page by page *)
(* while counter-parties keep signing, and only a complete inventory is    *)
(* retired.  The connector may refuse or lose any call, and may answer a   *)
(* query without regard to its filter.                                     *)
(***************************************************************************)
EXTENDS Naturals, Sequences, FiniteSets, SequencesExt, SequenceFilter

CONSTANTS Assets,         \* the assets of the connector
          PageSize,       \* _PAGE_SIZE
          MaxPages,       \* _MAX_PAGES
          MaxAgreements,  \* bound: agreements ever signed
          MaxWalks        \* bound: retirement steps run

ASSUME RetirementAssumption ==
    /\ {PageSize, MaxPages} \subseteq Nat \ {0}
    /\ {MaxAgreements, MaxWalks} \subseteq Nat

VARIABLES
    signed,   \* the connector: the asset of each agreement, in signing order
    retired,  \* the connector: the agreements retired
    walk,     \* the retirement step that runs
    walks,    \* retirement steps begun
    answer    \* what the last retirement step reported, and what it did (history)
rVars == <<signed, retired, walk, walks, answer>>

Agreements == 1..Len(signed)
\* 204, or what stands for a call that failed: its status, 0 when it had no answer.
Statuses == {"204", "failed"}
NoWalk == [at |-> "none", asset |-> "none", known |-> 0, filtered |-> "yes", page |-> 0,
           ids |-> {}, did |-> {}, status |-> "204"]

WalkRec == [at : {"none", "query", "retire"}, asset : Assets \cup {"none"}, known : 0..Len(signed),
            filtered : {"yes", "no"}, page : 0..(MaxPages - 1),
            ids : SUBSET Agreements, did : SUBSET Agreements, status : Statuses]
AnswerRec == [asset : Assets \cup {"none"}, known : 0..Len(signed), status : Statuses,
              error : {"none", "query"}, did : SUBSET Agreements]

RTypeOK ==
    /\ signed \in Seq(Assets) /\ Len(signed) <= MaxAgreements
    /\ retired \subseteq Agreements
    /\ walk \in WalkRec /\ walks \in 0..MaxWalks /\ answer \in AnswerRec

RInit ==
    /\ signed = <<>> /\ retired = {} /\ walk = NoWalk /\ walks = 0
    /\ answer = [asset |-> "none", known |-> 0, status |-> "failed", error |-> "none", did |-> {}]

\* A counter-party signs an agreement (external).
Sign(a) ==
    /\ Len(signed) < MaxAgreements
    /\ signed' = Append(signed, a)
    /\ UNCHANGED <<retired, walk, walks, answer>>

\* RetireContractAgreementStep: one agreement, by its id.
RetireOne(i) ==
    /\ walk.at = "none" /\ walks < MaxWalks
    /\ walks' = walks + 1
    /\ retired' \in {retired, retired \cup {i}}
    /\ UNCHANGED <<signed, walk, answer>>

-----------------------------------------------------------------------------
\* RetireAssetAgreementsStep begins to query; whether this connector heeds the filter of a
\* query is the connector's affair.
StartWalk(a) ==
    /\ walk.at = "none" /\ walks < MaxWalks
    /\ walks' = walks + 1
    /\ \E filtered \in {"yes", "no"} :
          walk' = [NoWalk EXCEPT !.at = "query", !.asset = a, !.known = Len(signed), !.filtered = filtered]
    /\ UNCHANGED <<signed, retired, answer>>

\* RetireAssetAgreementsOutput: the error is that of the inventory.
Answers(status, error) ==
    /\ walk' = NoWalk
    /\ answer' = [asset |-> walk.asset, known |-> walk.known, status |-> status, error |-> error,
                  did |-> walk.did]

\* The agreements a query answers, in signing order.
Answered == {i \in Agreements : walk.filtered = "no" \/ signed[i] = walk.asset}
Rows == Filter([i \in Agreements |-> i], Answered)

\* The page a query answers, oldest first, so that one signed meanwhile shifts no other.
Page ==
    SubSeq(Rows, walk.page * PageSize + 1,
           IF Len(Rows) < (walk.page + 1) * PageSize THEN Len(Rows) ELSE (walk.page + 1) * PageSize)

\* The rows of a page that are this asset's, whatever the filter let through.
Matching(page) == {i \in ToSet(page) : signed[i] = walk.asset}

\* Mutant of QueryPage: the next page is asked for at the same place.
QueryPageAgain ==
    /\ walk.at = "query"
    /\ walk' = [walk EXCEPT !.ids = @ \cup Matching(Page), !.at = IF Len(Page) < PageSize THEN "retire" ELSE @]
    /\ UNCHANGED <<signed, retired, walks, answer>>

\* One page of query_agreements: a short page is the last one; an asset with more pages than
\* the limit is not retired in part.
QueryPage ==
    /\ walk.at = "query"
    /\ LET ids == walk.ids \cup Matching(Page)
       IN  IF Len(Page) < PageSize
           THEN walk' = [walk EXCEPT !.ids = ids, !.at = "retire"] /\ UNCHANGED answer
           ELSE IF walk.page + 1 < MaxPages
           THEN walk' = [walk EXCEPT !.ids = ids, !.page = @ + 1] /\ UNCHANGED answer
           ELSE Answers("failed", "query")
    /\ UNCHANGED <<signed, retired, walks>>

\* A query that is refused, lost, or answered with something else than rows with ids: the
\* step answers with the status of the query unless that is 200, and any other refuses it,
\* 204 as well.
QueryFails ==
    /\ walk.at = "query"
    /\ \E status \in Statuses : Answers(status, "query")
    /\ UNCHANGED <<signed, retired, walks>>

\* Mutant of StatusAfter: the last retirement decides.
StatusAfterLast(outcome) == outcome

\* The status a retirement that ended so leaves: the first failure stands.
StatusAfter(outcome) == IF walk.status = "204" THEN outcome ELSE walk.status

\* The next agreement of the inventory: retired, refused or unanswered, and on to the next.
\* One without an answer may have been retired all the same.
RetireNext ==
    /\ walk.at = "retire" /\ walk.ids # {}
    /\ LET i == CHOOSE i \in walk.ids : \A j \in walk.ids : i <= j
       IN  \E outcome \in Statuses :
             /\ retired' \in {retired \cup {i}} \cup IF outcome = "204" THEN {} ELSE {retired}
             /\ walk' = [walk EXCEPT !.ids = @ \ {i}, !.did = @ \cup {i}, !.status = StatusAfter(outcome)]
    /\ UNCHANGED <<signed, walks, answer>>

WalkDone ==
    /\ walk.at = "retire" /\ walk.ids = {}
    /\ Answers(walk.status, "none")
    /\ UNCHANGED <<signed, retired, walks>>

RStepMoves == QueryPage \/ RetireNext \/ WalkDone
RNext ==
    \/ \E a \in Assets : Sign(a) \/ StartWalk(a)
    \/ \E i \in Agreements : RetireOne(i)
    \/ RStepMoves \/ QueryFails
RSpec == RInit /\ [][RNext]_rVars /\ WF_rVars(RStepMoves)

-----------------------------------------------------------------------------
\* A retirement that reports 204 and no error left no agreement behind that was signed
\* before it began, though more were signed while it turned the pages and any call of it
\* could fail.  One that reports an error of its inventory retired none, whatever its status
\* (204 too, where a page was answered so).  It touches the agreements of its own asset and
\* no other, also on a connector that answers the query with every agreement it has, and
\* none before the inventory is complete.  (With the types of the walk.)
DoneMeansRetired ==
    /\ RTypeOK
    /\ answer.status = "204" /\ answer.error = "none" =>
          {i \in 1..answer.known : signed[i] = answer.asset} \subseteq retired
    /\ answer.error = "query" => answer.did = {}
    /\ \A i \in walk.did : signed[i] = walk.asset
    /\ \A i \in answer.did : signed[i] = answer.asset
    /\ walk.at = "query" => walk.did = {}

\* RetireAssetAgreementsOutput.status_code: "204 when all succeeded or none matched".  Not
\* when a page of the inventory was answered 204.
StatusMeansRetired ==
    answer.status = "204" => {i \in 1..answer.known : signed[i] = answer.asset} \subseteq retired

\* A retirement ends, whatever is signed meanwhile.
WalkEnds == walk.at # "none" ~> walk.at = "none"
=============================================================================

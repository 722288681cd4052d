------------------------------- MODULE MCFeed -------------------------------
(***************************************************************************)
(* One run for two modules about how old a shown value may be: of the      *)
(* engine that the agent's collector scrapes (LlmScrape), and of the nodes *)
(* that the view asks (NodeFeed).  They share no variable, so a behaviour  *)
(* moves only the part that is in focus: their states add up instead of    *)
(* multiplying.                                                            *)
(***************************************************************************)
EXTENDS LlmScrape, NodeFeed

VARIABLE focus

(* The first port is the one of --vllm-url.                                *)
MCInstalled == <<Programs, {"off", "vllm"}>>

allVars == <<focus, scrapeVars, vars>>

(* The part that is not in focus keeps one initial state.  Without a url   *)
(* nothing listens at first.                                               *)
MCInit ==
    /\ focus \in {"scraper", "feed"}
    /\ ScrapeInit /\ Init
    /\ focus = "scraper" => configured \in {0, 1} /\ shared /\ cache.docs = <<>>
    /\ focus = "feed" => configured = 0
    /\ configured = 0 => program = [p \in PortNumbers |-> "off"]

ScraperStep(A) == focus = "scraper" /\ A /\ UNCHANGED <<focus, vars>>
FeedStep(A) == focus = "feed" /\ A /\ UNCHANGED <<focus, scrapeVars>>

MCNext == ScraperStep(ScrapeNext) \/ FeedStep(Next)

(* The fairness of ScrapeFairSpec and of FairSpec.                         *)
MCSpec ==
    /\ MCInit /\ [][MCNext]_allVars
    /\ WF_allVars(ScraperStep(Collect)) /\ WF_allVars(ScraperStep(CollectorTick))
    /\ WF_allVars(ScraperStep(Discover))
    /\ WF_allVars(FeedStep(Cycle)) /\ WF_allVars(FeedStep(Tick)) /\ WF_allVars(FeedStep(OtherEnds))

(* AnsweringComesOnline, where the view is what moves: a node that always  *)
(* answers is online again and again, however many silent ones share the   *)
(* list with it.                                                           *)
AnsweringReturns == focus = "feed" => AnsweringComesOnline
=============================================================================

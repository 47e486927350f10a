------------------------------ MODULE Crawlers ------------------------------
(* The three crawlers that keep what they have learned on disk.  They      *)
(* share no file: a behaviour runs one of them, and runs it again.         *)
EXTENDS BundleCrawl, PriceCrawl, SiteCrawl

VARIABLE script    (* the script that is run                               *)

crawlerVars == <<script, crawlVars, priceVars, siteVars>>

(* What the other two would start from is of no account.                   *)
CrawlersInit ==
  /\ script \in {"bundles", "prices", "site"}
  /\ CrawlInit
  /\ script # "bundles" => ~file.exists /\ world = CHOOSE w \in Worlds : TRUE
  /\ PriceInit
  /\ script # "prices" => /\ args = CHOOSE a \in PriceArgs : TRUE
                          /\ prices = CHOOSE p \in OldPrices : TRUE
  /\ SiteInit
  /\ script # "site" => head = 0

BundlesNext ==
  /\ script = "bundles" /\ CrawlNext
  /\ UNCHANGED <<script, priceVars, siteVars>>

PricesNext ==
  /\ script = "prices"
  /\ \/ PriceStep \/ BatchFails \/ CrashPrices
     \/ PriceEnded /\ UNCHANGED priceVars
  /\ UNCHANGED <<script, crawlVars, siteVars>>

SiteNext ==
  /\ script = "site"
  /\ \/ SiteStep \/ Advance \/ PollFails \/ CrashSite
     \/ SiteEnded /\ UNCHANGED siteVars
  /\ UNCHANGED <<script, crawlVars, priceVars>>

CrawlersNext == BundlesNext \/ PricesNext \/ SiteNext

(* A run that was started goes on, and its operator starts it again while  *)
(* it asks for it.                                                         *)
CrawlersSpec ==
  /\ CrawlersInit /\ [][CrawlersNext]_crawlerVars
  /\ WF_crawlerVars(script = "bundles" /\ CrawlStep /\ UNCHANGED <<script, priceVars, siteVars>>)
  /\ WF_crawlerVars(script = "prices" /\ PriceStep /\ UNCHANGED <<script, crawlVars, siteVars>>)

-----------------------------------------------------------------------------
(* EventuallyPublished of BundleCrawl, for the runs of that script.        *)
BundlesPublished == script = "bundles" => EventuallyPublished

(* EventuallyQuoted of PriceCrawl, for the runs of that script.            *)
PricesQuoted == script = "prices" => EventuallyQuoted
=============================================================================

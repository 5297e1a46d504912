--------------------------- MODULE MC_FeedIngest ---------------------------
(* Instances of FeedIngest for TLC.                                        *)
EXTENDS FeedIngest

CONSTANTS announcements, results
BothFeeds == <<results, announcements>>
AllAttached == Items

\* The second announcement has neither an attachment nor a number.
AllButOne == Items \ {<<announcements, 2>>}
============================================================================

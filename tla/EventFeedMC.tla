----------------------------- MODULE EventFeedMC -----------------------------
\* Instances of EventFeed for TLC: EventFeed.cfg.
EXTENDS EventFeed, TLC
=============================================================================

----------------------------- MODULE LiveFeedMC -----------------------------
EXTENDS LiveFeed

MCChunk == 1 .. 2
=============================================================================

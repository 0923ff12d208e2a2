----------------------------- MODULE MCFeedHandler -----------------------------
(***************************************************************************)
(* FeedHandler on every sequence of a few datagrams.                       *)
(***************************************************************************)
EXTENDS FeedHandler
=============================================================================

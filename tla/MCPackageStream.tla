--------------------------- MODULE MCPackageStream ---------------------------
(* A stream of a few bytes over a network that holds a few packages.       *)
EXTENDS PackageStream, TLC

CONSTANTS b1

\* Shorter than the stream, so payloads arrive that fit in part or not at all.
OneLength == (b1 :> 2)

\* Shorter than one payload, which then is confirmed in part.
ShortLength == (b1 :> 1)
=============================================================================

----------------------------- MODULE MCSourceSync -----------------------------
(***************************************************************************)
(* Model checking of SourceSync: two sources whose boards share domains.   *)
(***************************************************************************)
EXTENDS SourceSync

CONSTANTS w, x, y, z, a1, a2, b1, da, db

Entry(board, domain, hint) == [board |-> board, domain |-> domain, hint |-> hint]

\* The source x gives its first board a domain late, lists its second board on a
\* page of its own or not at all, and may send a listing without hints; y lists a
\* board of the same domain.  The source w is denied and z has no adapter.
SiteListings == [s \in Sources |->
    CASE s = x -> {<< <<Entry(a1, NoDomain, "ready")>>, <<Entry(a2, db, "bare")>> >>,
                   << <<Entry(a1, da, "bare"), Entry(a2, da, "ready")>> >>,
                   << <<Entry(a1, da, "none")>> >>}
      [] s = y -> {<< <<Entry(b1, da, "ready")>> >>, <<>>}
      [] OTHER -> {}]
=============================================================================

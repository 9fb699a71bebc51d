-------------------------- MODULE BlobyPublication --------------------------
(***************************************************************************)
(* How Bloby implements Publication: the row decides the phase, and the     *)
(* bytes at the key of an available row are what its readers get.           *)
(***************************************************************************)
EXTENDS BlobyInvariant

PhaseOf(row) ==
    CASE row = "unused"    -> "absent"
      [] row = "pending"   -> "reserved"
      [] row = "available" -> "published"
      [] OTHER             -> "withdrawn"

(* NoBody for a published object would be a download that fails.            *)
Readable(i) ==
    IF state[i] = "available" /\ stored[i] # NoBlob THEN stored[i].body ELSE NoBody

P == INSTANCE Publication
     WITH phase      <- [i \in Id |-> PhaseOf(state[i])],
          declared   <- content,
          body       <- [i \in Id |-> Readable(i)],
          referenced <- attached

(* Every behaviour of the service, with its crashes, retries, late uploads  *)
(* and sweeps, is a behaviour of Publication to those who only look at      *)
(* published objects.                                                       *)
ImplementsPublication == P!PublicationSpec
=============================================================================

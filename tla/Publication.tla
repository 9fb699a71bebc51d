---------------------------- MODULE Publication -----------------------------
(***************************************************************************)
(* What bloby promises to the applications that refer to its objects: an    *)
(* object is published once, with a body that matches what was declared of  *)
(* it, keeps that body for as long as it is published, and is withdrawn     *)
(* only while nothing references it.                                        *)
(***************************************************************************)
EXTENDS Objects

VARIABLES
    phase,       \* "absent", "reserved", "published" or "withdrawn"
    declared,    \* what the uploader said of the object
    body,        \* what readers of a published object get
    referenced   \* the objects the application refers to

publicationVars == <<phase, declared, body, referenced>>

PublicationInit ==
    /\ phase = [i \in Id |-> "absent"]
    /\ declared = [i \in Id |-> NoContent]
    /\ body = [i \in Id |-> NoBody]
    /\ referenced = {}

(* Both checksums cover the whole body; which one vouches for it depends on *)
(* how it was uploaded.                                                     *)
Matches(c, b) ==
    /\ Digest[b].size = c.size
    /\ Digest[b].sha = c.sha \/ Digest[b].crc = c.crc

ReserveObject(i, c) ==
    /\ phase[i] = "absent"
    /\ phase' = [phase EXCEPT ![i] = "reserved"]
    /\ declared' = [declared EXCEPT ![i] = c]
    /\ UNCHANGED <<body, referenced>>

PublishObject(i, b) ==
    /\ phase[i] = "reserved"
    /\ Matches(declared[i], b)
    /\ phase' = [phase EXCEPT ![i] = "published"]
    /\ body' = [body EXCEPT ![i] = b]
    /\ UNCHANGED <<declared, referenced>>

(* One sweep may give up several reserved objects; a published one is       *)
(* withdrawn by itself.                                                     *)
AbandonObjects(B) ==
    /\ \A i \in B : phase[i] \in {"reserved", "withdrawn"}
    /\ phase' = [i \in Id |-> IF i \in B THEN "withdrawn" ELSE phase[i]]
    /\ UNCHANGED <<declared, body, referenced>>

WithdrawObject(i) ==
    /\ phase[i] = "published"
    /\ i \notin referenced
    /\ phase' = [phase EXCEPT ![i] = "withdrawn"]
    /\ body' = [body EXCEPT ![i] = NoBody]
    /\ UNCHANGED <<declared, referenced>>

Refer(R) ==
    /\ referenced' = R
    /\ UNCHANGED <<phase, declared, body>>

PublicationNext ==
    \/ \E i \in Id :
         \/ \E c \in Content : ReserveObject(i, c)
         \/ \E b \in Body : PublishObject(i, b)
         \/ WithdrawObject(i)
    \/ \E B \in SUBSET Id : AbandonObjects(B)
    \/ \E R \in SUBSET Id : Refer(R)

PublicationSpec == PublicationInit /\ [][PublicationNext]_publicationVars
=============================================================================

------------------------------ MODULE MCBloby -------------------------------
(***************************************************************************)
(* Small instances of Bloby.  The body big needs a multipart upload on S3;  *)
(* other has its size alone; twin has its size and its CRC64NVME but        *)
(* another SHA-256; small goes through a single PUT; empty has no bytes.    *)
(***************************************************************************)
EXTENDS BlobyPublication, BlobyLiveness, TLC

CONSTANTS big, other, twin, small, empty

MCDigest == [b \in Body |->
    [size |-> IF b = small THEN 1 ELSE IF b = empty THEN 0 ELSE 2,
     sha  |-> b,
     crc  |-> IF b = twin THEN big ELSE b]]

MCContent == {MCDigest[b] : b \in Body}

Symmetry == Permutations(Id) \cup Permutations(UploadId)
                \cup Permutations(Request) \cup Permutations(Sweeper)
=============================================================================

-------------------------- MODULE MCPublicationGate --------------------------
(* An instance of PublicationGate for TLC: one archive, two variants of it. *)
EXTENDS PublicationGate

CONSTANTS main, c1, c2, bad

MCJars == <<main>>
MCVariants == <<main, main>>

\* There is a control byte in c2, which an archive may hold and a text may not;
\* metadata hold digests only, which are clean.
MCClean == {c1, bad} \cup Documents

\* Metadata that name one archive in both variants, metadata whose variants
\* differ, and what is no metadata.
MCMetadata == {<<c1, c1>>, <<c2, c2>>, <<bad, bad>>, <<c1, c2>>, bad}
=============================================================================

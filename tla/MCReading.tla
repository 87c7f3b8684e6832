---- MODULE MCReading ----
EXTENDS Reading, TLC

CONSTANTS byEmail, byTag, byStatus, ann, bob, cyd

\* ann and bob differ in the unique key and share a tag; ann has a second
\* tag.  cyd is bob as version 2 sees it: its status is the new default.
MCKeys == (byEmail :> (ann :> {1} @@ bob :> {2} @@ cyd :> {2}))
       @@ (byTag :> (ann :> {1, 2} @@ bob :> {1} @@ cyd :> {1}))
       @@ (byStatus :> (ann :> {1} @@ bob :> {1} @@ cyd :> {2}))
MCValues == <<{ann, bob}, {ann, cyd}>>
MCMigrate == ann :> ann @@ bob :> cyd @@ cyd :> cyd
\* Version 2 replaces one index of version 1.
MCSpecs == <<<<byEmail, byTag>>, <<byEmail, byStatus>>>>
MCRank == ann :> 2 @@ bob :> 1 @@ cyd :> 1
====

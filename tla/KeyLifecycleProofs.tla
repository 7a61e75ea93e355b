------------------------- MODULE KeyLifecycleProofs -------------------------
(***************************************************************************)
(* For any number of keys drawn: in an installation that is used in an     *)
(* orderly way, see Orderly, the master key is never lost and never        *)
(* becomes two.                                                            *)
(***************************************************************************)
EXTENDS KeyLifecycle, FiniteSetTheorems, TLAPS

\* Keys that must stay available.
Used == sealed \cup InUse

\* set-token keeps to the times when no server is up or starting.
Apart == job["cli"].pc # "idle" => ~server.up /\ job["start"].pc = "idle"

\* The file is without its line only while somebody is writing it.
Torn ==
    /\ file = NoLine <=> \E w \in Jobs : job[w].pc \in {"rewriting", "saving"}
    /\ \A w \in Jobs : job[w].pc \in {"rewrite", "rewriting"} => job[w].found

\* A key is drawn only where none is known and nothing is used yet.
FreshStart == \A w \in Jobs :
    job[w].pc \in {"generate", "rewrite", "rewriting"} =>
        env = Unset /\ file \notin Keys /\ Used = {}

\* A save brings the key that is known, if one is.
SavesKnown ==
    /\ \A w \in Jobs : job[w].pc = "blank" => job[w].key = LoadKey
    /\ env = Unset => \A w \in Jobs :
         /\ job[w].pc = "save" /\ file \in Keys => job[w].key = file
         /\ job[w].pc = "saving" => \A k \in Used : k = job[w].key

\* The keys in use are the one that LoadConfig finds.
UsedKnown ==
    /\ env # Unset => \A k \in Used : k = env
    /\ env = Unset /\ file # NoLine => \A k \in Used : k = file

KeyInv == Apart /\ Torn /\ FreshStart /\ SavesKnown /\ UsedKnown
IInv == TypeOK /\ (Orderly => KeyInv)
-----------------------------------------------------------------------------
\* generateAndSaveMasterKey draws a key that nobody has.
LEMMA KeyDrawn ==
    ASSUME TypeOK, NEW w, Generates(w)
    PROVE  /\ nextKey \in Keys /\ nextKey' = nextKey + 1
           /\ job' = [job EXCEPT ![w] = [pc |-> "generate", key |-> nextKey,
                                         found |-> FALSE]]
<1>1. nextKey \in Keys
  BY KeyAssumption DEF TypeOK, Generates, Keys
<1>2. QED
  BY <1>1 DEF Generates, Begins

\* What HandleConfig goes on with: without a key it draws one,
LEMMA PostDraws ==
    ASSUME TypeOK, SaveOrGenerate(Unset)
    PROVE  /\ nextKey \in Keys /\ nextKey' = nextKey + 1
           /\ job' = [job EXCEPT !["api"] = [pc |-> "generate", key |-> nextKey,
                                             found |-> FALSE]]
BY KeyDrawn DEF SaveOrGenerate

\* with one it saves the configuration.
LEMMA PostSaves ==
    ASSUME NEW k, k # Unset, SaveOrGenerate(k)
    PROVE  /\ nextKey' = nextKey
           /\ job' = [job EXCEPT !["api"] = [pc |-> "save", key |-> k,
                                             found |-> FALSE]]
BY DEF SaveOrGenerate, Begins

\* Where LoadConfig finds no key and nobody is writing, none is used.
LEMMA NothingUsed ==
    ASSUME TypeOK, Torn, UsedKnown, LoadKey = Unset,
           \A w \in Jobs : job[w].pc \notin {"rewriting", "saving"}
    PROVE  env = Unset /\ file \notin Keys /\ Used = {}
<1>1. env = Unset /\ file \notin Keys
  BY DEF LoadKey, TypeOK, Unset, Keys
<1>2. file # NoLine
  BY DEF Torn
<1>3. Used \subseteq Keys
  BY DEF TypeOK, Used, InUse
<1>4. QED
  BY <1>1, <1>2, <1>3 DEF UsedKnown

-----------------------------------------------------------------------------
\* Every step keeps every variable in its type.
LEMMA TypeStep ==
    ASSUME TypeOK, [Next]_vars
    PROVE  TypeOK'
<1> DEFINE Goal == TypeOK'
<1> USE KeyAssumption DEF TypeOK, vars, site, Keys, Jobs, Job, Unset, NoLine, Missing, Down
<1>1. CASE Start
  BY <1>1 DEF Start, At, MayStart, LoadKey
<1>2. CASE StartGenerates
  <2>1. /\ job' = [job EXCEPT !["start"] = [pc |-> "generate", key |-> nextKey, found |-> FALSE]]
        /\ nextKey' = nextKey + 1 /\ nextKey \in Keys
    BY <1>2, KeyDrawn DEF StartGenerates
  <2>2. QED
    BY <1>2, <2>1 DEF StartGenerates, MayStart, LoadKey, Generates, At
<1>3. CASE Stop
  BY <1>3 DEF Stop, At, Down, Idle
<1>4. CASE Post
  <2>1. CASE LoadKey = Unset
    <3>1. /\ job' = [job EXCEPT !["api"] = [pc |-> "generate", key |-> nextKey, found |-> FALSE]]
          /\ nextKey' = nextKey + 1 /\ nextKey \in Keys
      BY <1>4, <2>1, PostDraws DEF Post
    <3>2. QED
      BY <1>4, <2>1, <3>1 DEF Post, CanPost, At, LoadKey
  <2>2. CASE ~(LoadKey = Unset)
    <3>1. /\ job' = [job EXCEPT !["api"] = [pc |-> "save", key |-> LoadKey, found |-> FALSE]]
          /\ nextKey' = nextKey
      BY <1>4, <2>2, PostSaves DEF Post
    <3>2. QED
      BY <1>4, <2>2, <3>1 DEF Post, CanPost, At, LoadKey
  <2>3. QED
    BY <2>1, <2>2
<1>5. CASE PostBlank
  BY <1>5 DEF PostBlank, At, CanPost, LoadKey, Begins
<1>6. CASE BlankDecides
  <2>1. CASE LoadKey = Unset \/ job["api"].key = Unset
    <3>1. /\ job' = [job EXCEPT !["api"] = [pc |-> "generate", key |-> nextKey, found |-> FALSE]]
          /\ nextKey' = nextKey + 1 /\ nextKey \in Keys
      BY <1>6, <2>1, PostDraws DEF BlankDecides
    <3>2. QED
      BY <1>6, <2>1, <3>1 DEF BlankDecides, At, LoadKey
  <2>2. CASE ~(LoadKey = Unset \/ job["api"].key = Unset)
    <3>1. /\ job' = [job EXCEPT !["api"] = [pc |-> "save", key |-> job["api"].key, found |-> FALSE]]
          /\ nextKey' = nextKey
      BY <1>6, <2>2, PostSaves DEF BlankDecides
    <3>2. QED
      BY <1>6, <2>2, <3>1 DEF BlankDecides, At, LoadKey
  <2>3. QED
    BY <2>1, <2>2
<1>7. CASE PostPlaceholder
  <2>1. /\ job' = [job EXCEPT !["api"] = [pc |-> "generate", key |-> nextKey, found |-> FALSE]]
        /\ nextKey' = nextKey + 1 /\ nextKey \in Keys
    BY <1>7, PostDraws DEF PostPlaceholder
  <2>2. QED
    BY <1>7, <2>1 DEF PostPlaceholder, CanPost, At, LoadKey
<1>8. CASE PostKey
  <2>1. /\ job' = [job EXCEPT !["api"] = [pc |-> "save", key |-> nextKey, found |-> FALSE]]
        /\ nextKey' = nextKey + 1 /\ nextKey \in Keys
    BY <1>8 DEF PostKey, CanPost, LoadKey, Begins
  <2>2. QED
    BY <1>8, <2>1 DEF PostKey, CanPost, LoadKey, At
<1>9. CASE SetToken
  BY <1>9 DEF SetToken, At, LoadKey, Begins
<1>10. CASE SetTokenKilled
  BY <1>10 DEF SetTokenKilled, At, Ends, Idle
<1>11. ASSUME NEW w \in Jobs, ReadsFile(w) PROVE Goal
  BY <1>11 DEF ReadsFile, At
<1>12. ASSUME NEW w \in Jobs, Truncates(w) PROVE Goal
  BY <1>12 DEF Truncates, At, Goto
<1>13. ASSUME NEW w \in Jobs, Rewrites(w) PROVE Goal
  <2>1. CASE w = "start"
    <3>1. server' \in [up : BOOLEAN, key : Keys \cup {Unset}] /\ server'.up
      <4>1. server' = [up |-> TRUE, key |-> job[w].key]
        BY <1>13, <2>1 DEF Rewrites
      <4>2. job[w].key \in Keys \cup {Unset}
        OBVIOUS
      <4>3. QED
        BY <4>1, <4>2
    <3>2. job' = [job EXCEPT !["start"] = Idle]
      BY <1>13, <2>1 DEF Rewrites, Ends
    <3>3. file' \in Keys \cup {Unset, NoLine, Missing}
      BY <1>13 DEF Rewrites
    <3>4. QED
      BY <1>13, <3>1, <3>2, <3>3 DEF Rewrites, Idle, Down
  <2>2. CASE w = "api"
    BY <1>13, <2>2 DEF Rewrites, At, Goto, Down
  <2>3. w # "cli"
    BY <1>13 DEF Rewrites, At
  <2>4. QED
    BY <2>1, <2>2, <2>3
<1>14. ASSUME NEW w \in Jobs, Saves(w) PROVE Goal
  BY <1>14 DEF Saves, At, Ends, Idle
<1>15. ASSUME NEW w \in Jobs, Fails(w) PROVE Goal
  BY <1>15 DEF Fails, At, Ends, Idle
<1>16. CASE MountStarts
  BY <1>16 DEF MountStarts, LoadKey
<1>17. CASE MountEnds
  BY <1>17 DEF MountEnds
<1>18. CASE Seals
  <2>1. InUse \subseteq Keys
    BY DEF InUse
  <2>2. sealed' \subseteq Keys
    BY <1>18, <2>1 DEF Seals
  <2>3. QED
    BY <1>18, <2>2 DEF Seals, Down
<1>19. CASE ToolSeals
  BY <1>19 DEF ToolSeals, LoadKey
<1>20. CASE UNCHANGED vars
  BY <1>20
<1>21. QED
  BY <1>1, <1>2, <1>3, <1>4, <1>5, <1>6, <1>8, <1>9, <1>10, <1>11, <1>12,
     <1>13, <1>14, <1>15, <1>16, <1>17, <1>18, <1>19, <1>20, <1>7 DEF Next

\* set-token and the server stay apart: each waits for the other's end.
LEMMA ApartStep ==
    ASSUME TypeOK, Orderly, Apart, [Next]_vars
    PROVE  Apart'
<1> DEFINE Goal == Apart'
<1> USE KeyAssumption DEF TypeOK, vars, site, Keys, Jobs, Job, Unset, NoLine, Missing,
          Orderly, Apart
<1>1. CASE Start
  BY <1>1 DEF Start, At, MayStart, LoadKey
<1>2. CASE StartGenerates
  BY <1>2 DEF StartGenerates, At, MayStart, LoadKey, Generates, Begins
<1>3. CASE Stop
  BY <1>3 DEF Stop, At, Down, Idle
<1>4. CASE Post
  <2>1. CASE LoadKey = Unset
    <3>1. /\ job' = [job EXCEPT !["api"] = [pc |-> "generate", key |-> nextKey, found |-> FALSE]]
          /\ nextKey' = nextKey + 1 /\ nextKey \in Keys
      BY <1>4, <2>1, PostDraws DEF Post
    <3>2. QED
      BY <1>4, <2>1, <3>1 DEF Post, CanPost, At, LoadKey
  <2>2. CASE ~(LoadKey = Unset)
    <3>1. /\ job' = [job EXCEPT !["api"] = [pc |-> "save", key |-> LoadKey, found |-> FALSE]]
          /\ nextKey' = nextKey
      BY <1>4, <2>2, PostSaves DEF Post
    <3>2. QED
      BY <1>4, <2>2, <3>1 DEF Post, CanPost, At, LoadKey
  <2>3. QED
    BY <2>1, <2>2
<1>5. CASE PostBlank
  BY <1>5 DEF PostBlank, At, CanPost, LoadKey, Begins
<1>6. CASE BlankDecides
  <2>1. CASE LoadKey = Unset \/ job["api"].key = Unset
    <3>1. /\ job' = [job EXCEPT !["api"] = [pc |-> "generate", key |-> nextKey, found |-> FALSE]]
          /\ nextKey' = nextKey + 1 /\ nextKey \in Keys
      BY <1>6, <2>1, PostDraws DEF BlankDecides
    <3>2. QED
      BY <1>6, <2>1, <3>1 DEF BlankDecides, At, LoadKey
  <2>2. CASE ~(LoadKey = Unset \/ job["api"].key = Unset)
    <3>1. /\ job' = [job EXCEPT !["api"] = [pc |-> "save", key |-> job["api"].key, found |-> FALSE]]
          /\ nextKey' = nextKey
      BY <1>6, <2>2, PostSaves DEF BlankDecides
    <3>2. QED
      BY <1>6, <2>2, <3>1 DEF BlankDecides, At, LoadKey
  <2>3. QED
    BY <2>1, <2>2
<1>7. CASE PostPlaceholder
  <2>1. /\ job' = [job EXCEPT !["api"] = [pc |-> "generate", key |-> nextKey, found |-> FALSE]]
        /\ nextKey' = nextKey + 1 /\ nextKey \in Keys
    BY <1>7, PostDraws DEF PostPlaceholder
  <2>2. QED
    BY <1>7, <2>1 DEF PostPlaceholder, CanPost, At, LoadKey
<1>8. CASE PostKey
  BY <1>8 DEF PostKey, At, CanPost, LoadKey, Begins
<1>9. CASE SetToken
  BY <1>9 DEF SetToken, At, LoadKey, Begins
<1>10. CASE SetTokenKilled
  BY <1>10 DEF SetTokenKilled, At, Ends, Idle
<1>11. ASSUME NEW w \in Jobs, ReadsFile(w) PROVE Goal
  BY <1>11 DEF ReadsFile, At
<1>12. ASSUME NEW w \in Jobs, Truncates(w) PROVE Goal
  BY <1>12 DEF Truncates, At, Goto
<1>13. ASSUME NEW w \in Jobs, Rewrites(w) PROVE Goal
  BY <1>13 DEF Rewrites, At, Goto, Ends, Idle
<1>14. ASSUME NEW w \in Jobs, Saves(w) PROVE Goal
  BY <1>14 DEF Saves, At, Ends, Idle
<1>15. ASSUME NEW w \in Jobs, Fails(w) PROVE Goal
  BY <1>15 DEF Fails, At, Ends, Idle
<1>16. CASE MountStarts
  BY <1>16 DEF MountStarts, LoadKey
<1>17. CASE MountEnds
  BY <1>17 DEF MountEnds
<1>18. CASE Seals
  BY <1>18 DEF Seals
<1>19. CASE ToolSeals
  BY <1>19 DEF ToolSeals, LoadKey
<1>20. CASE UNCHANGED vars
  BY <1>20
<1>21. QED
  BY <1>1, <1>2, <1>3, <1>4, <1>5, <1>6, <1>8, <1>9, <1>10, <1>11, <1>12,
     <1>13, <1>14, <1>15, <1>16, <1>17, <1>18, <1>19, <1>20, <1>7 DEF Next

\* A step that truncates the file is followed by the one that writes it.
LEMMA TornStep ==
    ASSUME TypeOK, Orderly, Apart, Torn, [Next]_vars
    PROVE  Torn'
<1> DEFINE Goal == Torn'
<1> USE KeyAssumption DEF TypeOK, vars, site, Keys, Jobs, Job, Unset, NoLine, Missing,
          Orderly, Apart, Torn
<1>1. CASE Start
  BY <1>1 DEF Start, At, MayStart, LoadKey
<1>2. CASE StartGenerates
  BY <1>2 DEF StartGenerates, At, MayStart, LoadKey, Generates, Begins
<1>3. CASE Stop
  BY <1>3 DEF Stop, At, Down, Idle
<1>4. CASE Post
  <2>1. CASE LoadKey = Unset
    <3>1. /\ job' = [job EXCEPT !["api"] = [pc |-> "generate", key |-> nextKey, found |-> FALSE]]
          /\ nextKey' = nextKey + 1 /\ nextKey \in Keys
      BY <1>4, <2>1, PostDraws DEF Post
    <3>2. QED
      BY <1>4, <2>1, <3>1 DEF Post, CanPost, At, LoadKey
  <2>2. CASE ~(LoadKey = Unset)
    <3>1. /\ job' = [job EXCEPT !["api"] = [pc |-> "save", key |-> LoadKey, found |-> FALSE]]
          /\ nextKey' = nextKey
      BY <1>4, <2>2, PostSaves DEF Post
    <3>2. QED
      BY <1>4, <2>2, <3>1 DEF Post, CanPost, At, LoadKey
  <2>3. QED
    BY <2>1, <2>2
<1>5. CASE PostBlank
  BY <1>5 DEF PostBlank, At, CanPost, LoadKey, Begins
<1>6. CASE BlankDecides
  <2>1. CASE LoadKey = Unset \/ job["api"].key = Unset
    <3>1. /\ job' = [job EXCEPT !["api"] = [pc |-> "generate", key |-> nextKey, found |-> FALSE]]
          /\ nextKey' = nextKey + 1 /\ nextKey \in Keys
      BY <1>6, <2>1, PostDraws DEF BlankDecides
    <3>2. QED
      BY <1>6, <2>1, <3>1 DEF BlankDecides, At, LoadKey
  <2>2. CASE ~(LoadKey = Unset \/ job["api"].key = Unset)
    <3>1. /\ job' = [job EXCEPT !["api"] = [pc |-> "save", key |-> job["api"].key, found |-> FALSE]]
          /\ nextKey' = nextKey
      BY <1>6, <2>2, PostSaves DEF BlankDecides
    <3>2. QED
      BY <1>6, <2>2, <3>1 DEF BlankDecides, At, LoadKey
  <2>3. QED
    BY <2>1, <2>2
<1>7. CASE PostPlaceholder
  <2>1. /\ job' = [job EXCEPT !["api"] = [pc |-> "generate", key |-> nextKey, found |-> FALSE]]
        /\ nextKey' = nextKey + 1 /\ nextKey \in Keys
    BY <1>7, PostDraws DEF PostPlaceholder
  <2>2. QED
    BY <1>7, <2>1 DEF PostPlaceholder, CanPost, At, LoadKey
<1>8. CASE PostKey
  BY <1>8 DEF PostKey, At, CanPost, LoadKey, Begins
<1>9. CASE SetToken
  BY <1>9 DEF SetToken, At, LoadKey, Begins
<1>10. CASE SetTokenKilled
  BY <1>10 DEF SetTokenKilled, At, Ends, Idle
<1>11. ASSUME NEW w \in Jobs, ReadsFile(w) PROVE Goal
  BY <1>11 DEF ReadsFile, At
<1>12. ASSUME NEW w \in Jobs, Truncates(w) PROVE Goal
  BY <1>12 DEF Truncates, At, Goto
<1>13. ASSUME NEW w \in Jobs, Rewrites(w) PROVE Goal
  BY <1>13 DEF Rewrites, At, Goto, Ends, Idle
<1>14. ASSUME NEW w \in Jobs, Saves(w) PROVE Goal
  BY <1>14 DEF Saves, At, Ends, Idle
<1>15. ASSUME NEW w \in Jobs, Fails(w) PROVE Goal
  BY <1>15 DEF Fails, At, Ends, Idle
<1>16. CASE MountStarts
  BY <1>16 DEF MountStarts, LoadKey
<1>17. CASE MountEnds
  BY <1>17 DEF MountEnds
<1>18. CASE Seals
  BY <1>18 DEF Seals
<1>19. CASE ToolSeals
  BY <1>19 DEF ToolSeals, LoadKey
<1>20. CASE UNCHANGED vars
  BY <1>20
<1>21. QED
  BY <1>1, <1>2, <1>3, <1>4, <1>5, <1>6, <1>8, <1>9, <1>10, <1>11, <1>12,
     <1>13, <1>14, <1>15, <1>16, <1>17, <1>18, <1>19, <1>20, <1>7 DEF Next

\* Nobody finds a key while one is being drawn.
LEMMA FreshStartStep ==
    ASSUME TypeOK, Orderly, KeyInv, [Next]_vars
    PROVE  FreshStart'
<1> DEFINE Goal == FreshStart'
<1> USE KeyAssumption DEF TypeOK, vars, site, Keys, Jobs, Job, Unset, NoLine, Missing,
          Orderly, KeyInv, Apart, Torn, FreshStart, SavesKnown, UsedKnown, Used, InUse
<1>1. CASE Start
  BY <1>1 DEF Start, At, MayStart, LoadKey
<1>2. CASE StartGenerates
  <2>1. \A w \in Jobs : job[w].pc \notin {"rewriting", "saving"}
    BY <1>2 DEF StartGenerates, MayStart, At
  <2>2. env = Unset /\ file \notin Keys /\ Used = {}
    BY <1>2, <2>1, NothingUsed DEF StartGenerates
  <2>3. job' = [job EXCEPT !["start"] = [pc |-> "generate", key |-> nextKey, found |-> FALSE]]
    BY <1>2, KeyDrawn DEF StartGenerates
  <2>4. QED
    BY <1>2, <2>2, <2>3 DEF StartGenerates
<1>3. CASE Stop
  BY <1>3 DEF Stop, At, Down, Idle
<1>4. CASE Post
  <2>1. CASE LoadKey = Unset
    <3>1. /\ job' = [job EXCEPT !["api"] = [pc |-> "generate", key |-> nextKey, found |-> FALSE]]
          /\ nextKey' = nextKey + 1 /\ nextKey \in Keys
      BY <1>4, <2>1, PostDraws DEF Post
    <3>2. \A w \in Jobs : job[w].pc \notin {"rewriting", "saving"}
      BY <1>4 DEF Post, CanPost, At
    <3>3. LoadKey = Unset
      BY <1>4, <2>1 DEF Post, At
    <3>4. env = Unset /\ file \notin Keys /\ Used = {}
      BY <3>2, <3>3, NothingUsed
    <3>5. QED
      BY <1>4, <3>1, <3>4 DEF Post
  <2>2. CASE ~(LoadKey = Unset)
    <3>1. /\ job' = [job EXCEPT !["api"] = [pc |-> "save", key |-> LoadKey, found |-> FALSE]]
          /\ nextKey' = nextKey
      BY <1>4, <2>2, PostSaves DEF Post
    <3>2. QED
      BY <1>4, <2>2, <3>1 DEF Post, CanPost, At, LoadKey
  <2>3. QED
    BY <2>1, <2>2
<1>5. CASE PostBlank
  BY <1>5 DEF PostBlank, At, CanPost, LoadKey, Begins
<1>6. CASE BlankDecides
  <2>1. CASE LoadKey = Unset \/ job["api"].key = Unset
    <3>1. /\ job' = [job EXCEPT !["api"] = [pc |-> "generate", key |-> nextKey, found |-> FALSE]]
          /\ nextKey' = nextKey + 1 /\ nextKey \in Keys
      BY <1>6, <2>1, PostDraws DEF BlankDecides
    <3>2. \A w \in Jobs : job[w].pc \notin {"rewriting", "saving"}
      BY <1>6 DEF BlankDecides, At
    <3>3. LoadKey = Unset
      BY <1>6, <2>1 DEF BlankDecides, At
    <3>4. env = Unset /\ file \notin Keys /\ Used = {}
      BY <3>2, <3>3, NothingUsed
    <3>5. QED
      BY <1>6, <3>1, <3>4 DEF BlankDecides
  <2>2. CASE ~(LoadKey = Unset \/ job["api"].key = Unset)
    <3>1. /\ job' = [job EXCEPT !["api"] = [pc |-> "save", key |-> job["api"].key, found |-> FALSE]]
          /\ nextKey' = nextKey
      BY <1>6, <2>2, PostSaves DEF BlankDecides
    <3>2. QED
      BY <1>6, <2>2, <3>1 DEF BlankDecides, At, LoadKey
  <2>3. QED
    BY <2>1, <2>2
<1>7. CASE PostPlaceholder
  <2>1. /\ job' = [job EXCEPT !["api"] = [pc |-> "generate", key |-> nextKey, found |-> FALSE]]
        /\ nextKey' = nextKey + 1 /\ nextKey \in Keys
    BY <1>7, PostDraws DEF PostPlaceholder
  <2>2. \A w \in Jobs : job[w].pc \notin {"rewriting", "saving"}
    BY <1>7 DEF PostPlaceholder, CanPost, At
  <2>3. LoadKey = Unset
    BY <1>7 DEF PostPlaceholder
  <2>4. env = Unset /\ file \notin Keys /\ Used = {}
    BY <2>2, <2>3, NothingUsed
  <2>5. QED
    BY <1>7, <2>1, <2>4 DEF PostPlaceholder
<1>8. CASE PostKey
  BY <1>8 DEF PostKey, At, CanPost, LoadKey, Begins
<1>9. CASE SetToken
  BY <1>9 DEF SetToken, At, LoadKey, Begins
<1>10. CASE SetTokenKilled
  BY <1>10 DEF SetTokenKilled, At, Ends, Idle
<1>11. ASSUME NEW w \in Jobs, ReadsFile(w) PROVE Goal
  BY <1>11 DEF ReadsFile, At
<1>12. ASSUME NEW w \in Jobs, Truncates(w) PROVE Goal
  BY <1>12 DEF Truncates, At, Goto
<1>13. ASSUME NEW w \in Jobs, Rewrites(w) PROVE Goal
  BY <1>13 DEF Rewrites, At, Goto, Ends, Idle
<1>14. ASSUME NEW w \in Jobs, Saves(w) PROVE Goal
  BY <1>14 DEF Saves, At, Ends, Idle
<1>15. ASSUME NEW w \in Jobs, Fails(w) PROVE Goal
  BY <1>15 DEF Fails, At, Ends, Idle
<1>16. CASE MountStarts
  BY <1>16 DEF MountStarts, LoadKey
<1>17. CASE MountEnds
  BY <1>17 DEF MountEnds
<1>18. CASE Seals
  BY <1>18 DEF Seals
<1>19. CASE ToolSeals
  BY <1>19 DEF ToolSeals, LoadKey
<1>20. CASE UNCHANGED vars
  BY <1>20
<1>21. QED
  BY <1>1, <1>2, <1>3, <1>4, <1>5, <1>6, <1>8, <1>9, <1>10, <1>11, <1>12,
     <1>13, <1>14, <1>15, <1>16, <1>17, <1>18, <1>19, <1>20, <1>7 DEF Next

\* A save that has begun brings the key in use.
LEMMA SavesKnownStep ==
    ASSUME TypeOK, Orderly, KeyInv, [Next]_vars
    PROVE  SavesKnown'
<1> DEFINE Goal == SavesKnown'
<1> USE KeyAssumption DEF TypeOK, vars, site, Keys, Jobs, Job, Unset, NoLine, Missing,
          Orderly, KeyInv, Apart, Torn, FreshStart, SavesKnown, UsedKnown, Used, InUse
<1>1. CASE Start
  BY <1>1 DEF Start, At, MayStart, LoadKey
<1>2. CASE StartGenerates
  BY <1>2 DEF StartGenerates, At, MayStart, LoadKey, Generates, Begins
<1>3. CASE Stop
  BY <1>3 DEF Stop, At, Down, Idle
<1>4. CASE Post
  <2>1. CASE LoadKey = Unset
    <3>1. /\ job' = [job EXCEPT !["api"] = [pc |-> "generate", key |-> nextKey, found |-> FALSE]]
          /\ nextKey' = nextKey + 1 /\ nextKey \in Keys
      BY <1>4, <2>1, PostDraws DEF Post
    <3>2. QED
      BY <1>4, <2>1, <3>1 DEF Post, CanPost, At, LoadKey
  <2>2. CASE ~(LoadKey = Unset)
    <3>1. /\ job' = [job EXCEPT !["api"] = [pc |-> "save", key |-> LoadKey, found |-> FALSE]]
          /\ nextKey' = nextKey
      BY <1>4, <2>2, PostSaves DEF Post
    <3>2. QED
      BY <1>4, <2>2, <3>1 DEF Post, CanPost, At, LoadKey
  <2>3. QED
    BY <2>1, <2>2
<1>5. CASE PostBlank
  BY <1>5 DEF PostBlank, At, CanPost, LoadKey, Begins
<1>6. CASE BlankDecides
  <2>1. CASE LoadKey = Unset \/ job["api"].key = Unset
    <3>1. /\ job' = [job EXCEPT !["api"] = [pc |-> "generate", key |-> nextKey, found |-> FALSE]]
          /\ nextKey' = nextKey + 1 /\ nextKey \in Keys
      BY <1>6, <2>1, PostDraws DEF BlankDecides
    <3>2. QED
      BY <1>6, <2>1, <3>1 DEF BlankDecides, At, LoadKey
  <2>2. CASE ~(LoadKey = Unset \/ job["api"].key = Unset)
    <3>1. /\ job' = [job EXCEPT !["api"] = [pc |-> "save", key |-> job["api"].key, found |-> FALSE]]
          /\ nextKey' = nextKey
      BY <1>6, <2>2, PostSaves DEF BlankDecides
    <3>2. QED
      BY <1>6, <2>2, <3>1 DEF BlankDecides, At, LoadKey
  <2>3. QED
    BY <2>1, <2>2
<1>7. CASE PostPlaceholder
  <2>1. /\ job' = [job EXCEPT !["api"] = [pc |-> "generate", key |-> nextKey, found |-> FALSE]]
        /\ nextKey' = nextKey + 1 /\ nextKey \in Keys
    BY <1>7, PostDraws DEF PostPlaceholder
  <2>2. QED
    BY <1>7, <2>1 DEF PostPlaceholder, CanPost, At, LoadKey
<1>8. CASE PostKey
  BY <1>8 DEF PostKey, At, CanPost, LoadKey, Begins
<1>9. CASE SetToken
  BY <1>9 DEF SetToken, At, LoadKey, Begins
<1>10. CASE SetTokenKilled
  BY <1>10 DEF SetTokenKilled, At, Ends, Idle
<1>11. ASSUME NEW w \in Jobs, ReadsFile(w) PROVE Goal
  BY <1>11 DEF ReadsFile, At
<1>12. ASSUME NEW w \in Jobs, Truncates(w) PROVE Goal
  BY <1>12 DEF Truncates, At, Goto
<1>13. ASSUME NEW w \in Jobs, Rewrites(w) PROVE Goal
  BY <1>13 DEF Rewrites, At, Goto, Ends, Idle
<1>14. ASSUME NEW w \in Jobs, Saves(w) PROVE Goal
  BY <1>14 DEF Saves, At, Ends, Idle
<1>15. ASSUME NEW w \in Jobs, Fails(w) PROVE Goal
  BY <1>15 DEF Fails, At, Ends, Idle
<1>16. CASE MountStarts
  BY <1>16 DEF MountStarts, LoadKey
<1>17. CASE MountEnds
  BY <1>17 DEF MountEnds, LoadKey
<1>18. CASE Seals
  BY <1>18 DEF Seals, LoadKey
<1>19. CASE ToolSeals
  BY <1>19 DEF ToolSeals, LoadKey
<1>20. CASE UNCHANGED vars
  BY <1>20 DEF LoadKey
<1>21. QED
  BY <1>1, <1>2, <1>3, <1>4, <1>5, <1>6, <1>8, <1>9, <1>10, <1>11, <1>12,
     <1>13, <1>14, <1>15, <1>16, <1>17, <1>18, <1>19, <1>20, <1>7 DEF Next

\* A key that comes into use is the one LoadConfig finds.
LEMMA UsedKnownStep ==
    ASSUME TypeOK, Orderly, KeyInv, [Next]_vars
    PROVE  UsedKnown'
<1> DEFINE Goal == UsedKnown'
<1> USE KeyAssumption DEF TypeOK, vars, site, Keys, Jobs, Job, Unset, NoLine, Missing,
          Orderly, KeyInv, Apart, Torn, FreshStart, SavesKnown, UsedKnown, Used, InUse
<1>1. CASE Start
  BY <1>1 DEF Start, At, MayStart, LoadKey
<1>2. CASE StartGenerates
  BY <1>2 DEF StartGenerates, At, MayStart, LoadKey, Generates, Begins
<1>3. CASE Stop
  BY <1>3 DEF Stop, At, Down, Idle
<1>4. CASE Post
  <2>1. CASE LoadKey = Unset
    <3>1. /\ job' = [job EXCEPT !["api"] = [pc |-> "generate", key |-> nextKey, found |-> FALSE]]
          /\ nextKey' = nextKey + 1 /\ nextKey \in Keys
      BY <1>4, <2>1, PostDraws DEF Post
    <3>2. QED
      BY <1>4, <2>1, <3>1 DEF Post, CanPost, At, LoadKey
  <2>2. CASE ~(LoadKey = Unset)
    <3>1. /\ job' = [job EXCEPT !["api"] = [pc |-> "save", key |-> LoadKey, found |-> FALSE]]
          /\ nextKey' = nextKey
      BY <1>4, <2>2, PostSaves DEF Post
    <3>2. QED
      BY <1>4, <2>2, <3>1 DEF Post, CanPost, At, LoadKey
  <2>3. QED
    BY <2>1, <2>2
<1>5. CASE PostBlank
  BY <1>5 DEF PostBlank, At, CanPost, LoadKey, Begins
<1>6. CASE BlankDecides
  <2>1. CASE LoadKey = Unset \/ job["api"].key = Unset
    <3>1. /\ job' = [job EXCEPT !["api"] = [pc |-> "generate", key |-> nextKey, found |-> FALSE]]
          /\ nextKey' = nextKey + 1 /\ nextKey \in Keys
      BY <1>6, <2>1, PostDraws DEF BlankDecides
    <3>2. QED
      BY <1>6, <2>1, <3>1 DEF BlankDecides, At, LoadKey
  <2>2. CASE ~(LoadKey = Unset \/ job["api"].key = Unset)
    <3>1. /\ job' = [job EXCEPT !["api"] = [pc |-> "save", key |-> job["api"].key, found |-> FALSE]]
          /\ nextKey' = nextKey
      BY <1>6, <2>2, PostSaves DEF BlankDecides
    <3>2. QED
      BY <1>6, <2>2, <3>1 DEF BlankDecides, At, LoadKey
  <2>3. QED
    BY <2>1, <2>2
<1>7. CASE PostPlaceholder
  <2>1. /\ job' = [job EXCEPT !["api"] = [pc |-> "generate", key |-> nextKey, found |-> FALSE]]
        /\ nextKey' = nextKey + 1 /\ nextKey \in Keys
    BY <1>7, PostDraws DEF PostPlaceholder
  <2>2. QED
    BY <1>7, <2>1 DEF PostPlaceholder, CanPost, At, LoadKey
<1>8. CASE PostKey
  BY <1>8 DEF PostKey, At, CanPost, LoadKey, Begins
<1>9. CASE SetToken
  BY <1>9 DEF SetToken, At, LoadKey, Begins
<1>10. CASE SetTokenKilled
  BY <1>10 DEF SetTokenKilled, At, Ends, Idle
<1>11. ASSUME NEW w \in Jobs, ReadsFile(w) PROVE Goal
  BY <1>11 DEF ReadsFile, At
<1>12. ASSUME NEW w \in Jobs, Truncates(w) PROVE Goal
  BY <1>12 DEF Truncates, At, Goto
<1>13. ASSUME NEW w \in Jobs, Rewrites(w) PROVE Goal
  BY <1>13 DEF Rewrites, At, Goto, Ends, Idle
<1>14. ASSUME NEW w \in Jobs, Saves(w) PROVE Goal
  BY <1>14 DEF Saves, At, Ends, Idle
<1>15. ASSUME NEW w \in Jobs, Fails(w) PROVE Goal
  BY <1>15 DEF Fails, At, Ends, Idle
<1>16. CASE MountStarts
  BY <1>16 DEF MountStarts, LoadKey
<1>17. CASE MountEnds
  BY <1>17 DEF MountEnds
<1>18. CASE Seals
  BY <1>18 DEF Seals
<1>19. CASE ToolSeals
  BY <1>19 DEF ToolSeals, LoadKey
<1>20. CASE UNCHANGED vars
  BY <1>20
<1>21. QED
  BY <1>1, <1>2, <1>3, <1>4, <1>5, <1>6, <1>8, <1>9, <1>10, <1>11, <1>12,
     <1>13, <1>14, <1>15, <1>16, <1>17, <1>18, <1>19, <1>20, <1>7 DEF Next

-----------------------------------------------------------------------------
\* In an orderly installation every key used is the one LoadConfig finds.
THEOREM KeyInductive == Spec => []IInv
<1>1. Init => IInv
  <2>1. ASSUME Init PROVE TypeOK
    BY <2>1, KeyAssumption DEF Init, TypeOK, Keys, Jobs, Job, Idle, Down,
       Unset, NoLine, Missing
  <2>2. ASSUME Init PROVE Used = {}
    BY <2>2 DEF Init, Used, InUse, Down
  <2>3. ASSUME Init, Orderly PROVE KeyInv
    BY <2>2, <2>3 DEF Init, Orderly, KeyInv, Apart, Torn, FreshStart, SavesKnown,
       UsedKnown, Jobs, Idle, Down, Unset, NoLine, Missing
  <2>4. QED
    BY <2>1, <2>3 DEF IInv
<1>2. IInv /\ [Next]_vars => IInv'
  <2> SUFFICES ASSUME IInv, [Next]_vars PROVE IInv'
    OBVIOUS
  <2>1. TypeOK'
    BY TypeStep DEF IInv
  <2>2. ASSUME Orderly' PROVE KeyInv'
    <3>1. UNCHANGED faults
      BY DEF Next, vars, site, Start, StartGenerates, Stop, Post, PostBlank,
         BlankDecides, PostPlaceholder, PostKey, SetToken, SetTokenKilled, ReadsFile, Truncates,
         Rewrites, Saves, Fails, MountStarts, MountEnds, Seals, ToolSeals
    <3>2. Orderly
      BY <2>2, <3>1 DEF Orderly
    <3>3. QED
      BY <3>2, ApartStep, TornStep, FreshStartStep, SavesKnownStep, UsedKnownStep
      DEF IInv, KeyInv
  <2>3. QED
    BY <2>1, <2>2 DEF IInv
<1>3. QED
  BY <1>1, <1>2, PTL DEF Spec

\* Type correctness of the configuration file's writers and readers
\* (config.go, api.go, main.go).
THEOREM KeyTypeCorrect == Spec => []TypeOK
<1>1. IInv => TypeOK
  BY DEF IInv
<1>2. QED
  BY <1>1, KeyInductive, PTL

\* Orderly use of an installation never leads to a second master key.
THEOREM OneKeyOnly == Spec => []OneKey
<1>1. IInv => OneKey
  <2> SUFFICES ASSUME IInv, Orderly PROVE Cardinality(Used) <= 1
    BY DEF OneKey, Used
  <2>1. \A k, l \in Used : k = l
    <3>1. CASE env # Unset
      BY <3>1 DEF IInv, KeyInv, UsedKnown
    <3>2. CASE env = Unset /\ file # NoLine
      BY <3>2 DEF IInv, KeyInv, UsedKnown
    <3>3. CASE env = Unset /\ file = NoLine
      <4>1. PICK w \in Jobs : job[w].pc \in {"rewriting", "saving"}
        BY <3>3 DEF IInv, KeyInv, Torn
      <4>2. CASE job[w].pc = "rewriting"
        BY <4>2 DEF IInv, KeyInv, FreshStart
      <4>3. CASE job[w].pc = "saving"
        BY <3>3, <4>3 DEF IInv, KeyInv, SavesKnown
      <4>4. QED
        BY <4>1, <4>2, <4>3
    <3>4. QED
      BY <3>1, <3>2, <3>3
  <2>2. CASE Used = {}
    BY <2>2, FS_EmptySet
  <2>3. CASE Used # {}
    <3>1. PICK k : k \in Used
      BY <2>3
    <3>2. Used = {k}
      BY <2>1, <3>1
    <3>3. QED
      BY <3>2, FS_Singleton
  <2>4. QED
    BY <2>2, <2>3
<1>2. QED
  BY <1>1, KeyInductive, PTL

\* A key that something depends on is never lost by orderly use.
THEOREM KeysAreKept == Spec => []KeyInUseKept
<1>1. IInv => KeyInUseKept
  <2> SUFFICES ASSUME IInv, Orderly, NEW k \in Used
               PROVE  k \in {env, file} \/ Pending(k)
    BY DEF KeyInUseKept, Used
  <2>1. CASE file # NoLine
    BY <2>1 DEF IInv, KeyInv, UsedKnown
  <2>2. CASE file = NoLine /\ env = Unset
    <3>1. PICK w \in Jobs : job[w].pc \in {"rewriting", "saving"}
      BY <2>2 DEF IInv, KeyInv, Torn
    <3>2. job[w].pc = "saving"
      BY <3>1 DEF IInv, KeyInv, FreshStart
    <3>3. QED
      BY <2>2, <3>2 DEF IInv, KeyInv, SavesKnown, Pending
  <2>3. CASE env # Unset
    BY <2>3 DEF IInv, KeyInv, UsedKnown
  <2>4. QED
    BY <2>1, <2>2, <2>3
<1>2. QED
  BY <1>1, KeyInductive, PTL

\* A server that comes up over existing data has the key of that data.
THEOREM ComesUpWithItsKey == Spec => ServesWhatItHolds
<1>1. IInv /\ [Next]_vars =>
        [Orderly /\ ~server.up /\ server'.up /\ sealed # {} => server'.key \in sealed]_vars
  <2> SUFFICES ASSUME IInv, Next, Orderly, ~server.up, server'.up, sealed # {}
               PROVE  server'.key \in sealed
    OBVIOUS
  <2>1. CASE Start
    <3>1. file # NoLine
      BY <2>1 DEF Start, MayStart, At, IInv, KeyInv, TypeOK, Orderly, Torn, Jobs
    <3>2. \A k \in sealed : k = LoadKey
      BY <3>1 DEF IInv, KeyInv, UsedKnown, Used, LoadKey, TypeOK
    <3>3. QED
      BY <2>1, <3>2 DEF Start
  <2>2. ASSUME NEW w \in Jobs, Rewrites(w) PROVE FALSE
    BY <2>2 DEF Rewrites, At, IInv, KeyInv, FreshStart, Used
  <2>3. CASE StartGenerates \/ Stop
    BY <2>3 DEF StartGenerates, Stop, Down
  <2>4. CASE \/ Post \/ PostBlank \/ BlankDecides \/ PostPlaceholder \/ PostKey
             \/ SetToken \/ SetTokenKilled
    BY <2>4 DEF Post, PostBlank, BlankDecides, PostPlaceholder, PostKey, SetToken,
       SetTokenKilled
  <2>5. ASSUME NEW w \in Jobs, ReadsFile(w) \/ Truncates(w) \/ Saves(w) \/ Fails(w)
        PROVE  FALSE
    BY <2>5 DEF ReadsFile, Truncates, Saves, Fails
  <2>6. CASE MountStarts \/ MountEnds \/ Seals \/ ToolSeals
    BY <2>6 DEF MountStarts, MountEnds, Seals, ToolSeals
  <2>7. QED
    BY <2>1, <2>2, <2>3, <2>4, <2>5, <2>6 DEF Next
<1>2. QED
  BY <1>1, KeyInductive, PTL DEF Spec, ServesWhatItHolds
=============================================================================

---------------------------- MODULE ReleaseProofs ---------------------------
(***************************************************************************)
(* What deploying and upgrading keep, for any number of deployments,       *)
(* builds, windows and amounts, wherever a script may die.                 *)
(***************************************************************************)
EXTENDS Release, TLAPS, SequenceTheorems

\* A deployment that stands: its contract is there and took its seed, and the
\* deploy key has no power left over its token.
Safe(n) ==
    tokens[n].minters = {"core"} /\ tokens[n].admin = "core"

Stands(n) ==
    /\ n \in DOMAIN cores /\ cores[n] \in Core
    /\ cores[n].bootstrapped

Lengths ==
    /\ tokens \in Seq(Token) /\ cores \in Seq(Core \cup {None})
    /\ Len(cores) = Len(tokens)

RunShape ==
    run = [at |-> run.at, option |-> run.option, core |-> run.core,
           build |-> run.build, before |-> run.before, after |-> run.after]

\* How far the deployment under way has come.
DeployHasCome ==
    LET n == run.core
    IN  /\ run.at \in {"upload", "token"} => n = Len(tokens) + 1
        /\ run.at \in {"token", "core", "minters", "admin", "seed", "handover", "write"}
              => run.build \in Builds
        /\ run.at \in {"core", "minters", "admin", "seed", "handover", "write"}
              => n \in DOMAIN tokens
        /\ run.at = "core" => cores[n] = None
        /\ run.at \in {"minters", "admin", "seed", "handover", "write"}
              => cores[n] \in Core /\ cores[n].build = run.build
        /\ run.at \in {"minters", "admin", "seed"} => ~cores[n].bootstrapped
        /\ run.at \in {"admin", "seed"} => tokens[n].minters = {"core"}
        /\ run.at = "seed" => tokens[n].admin = "core"
        /\ run.at \in {"handover", "write"} => cores[n].bootstrapped
        /\ run.at \in DeploySteps => /\ env # None => env.core # n
                                     /\ record # None => record.core # n

\* How far the upgrade under way has come.
UpgradeHasCome ==
    run.at \in UpgradeSteps =>
        /\ record # None /\ run.core = record.core
        /\ run.build \in Builds
        /\ run.at \in {"reread", "judge", "env"} => cores[run.core].build = run.build
        /\ run.at = "env" => record.build = run.build

FilesNameWhatStands ==
    /\ record # None => /\ record = [core |-> record.core, build |-> record.build]
                        /\ record.build \in Builds /\ Stands(record.core)
    /\ env # None => /\ env = [core |-> env.core, build |-> env.build]
                     /\ env.build \in Builds /\ Stands(env.core)

ReleaseInv ==
    /\ Lengths /\ RunShape /\ artifact \in Builds
    /\ run.at \in {"idle"} \cup DeploySteps \cup UpgradeSteps
    /\ DeployHasCome /\ UpgradeHasCome /\ FilesNameWhatStands
    /\ NoKeyCanMint

-----------------------------------------------------------------------------
(* Changes of one field.                                                   *)

LEMMA CoreEdits ==
    /\ \A c \in Core : LET d == [c EXCEPT !.bootstrapped = TRUE]
                      IN  d \in Core /\ d.bootstrapped /\ d.build = c.build
    /\ \A c \in Core : LET d == [c EXCEPT !.governed = TRUE]
                      IN  /\ d \in Core /\ d.build = c.build
                          /\ d.bootstrapped = c.bootstrapped
    /\ \A c \in Core, b \in Builds : LET d == [c EXCEPT !.build = b]
                                   IN  /\ d \in Core /\ d.build = b
                                       /\ d.bootstrapped = c.bootstrapped
<1>1. ASSUME NEW c \in Core
      PROVE  LET d == [c EXCEPT !.bootstrapped = TRUE]
             IN  d \in Core /\ d.bootstrapped /\ d.build = c.build
  BY DEF Core
<1>2. ASSUME NEW c \in Core
      PROVE  LET d == [c EXCEPT !.governed = TRUE]
             IN  d \in Core /\ d.build = c.build /\ d.bootstrapped = c.bootstrapped
  BY DEF Core
<1>3. ASSUME NEW c \in Core, NEW b \in Builds
      PROVE  LET d == [c EXCEPT !.build = b]
             IN  d \in Core /\ d.build = b /\ d.bootstrapped = c.bootstrapped
  BY DEF Core
<1> QED
  BY <1>1, <1>2, <1>3, Zenon

\* What the two messages to a token change.
LEMMA TokenEdits ==
    \A t \in Token :
        /\ LET u == [t EXCEPT !.minters = {"core"}]
           IN  u \in Token /\ u.minters = {"core"} /\ u.admin = t.admin
        /\ LET u == [t EXCEPT !.admin = "core"]
           IN  u \in Token /\ u.minters = t.minters /\ u.admin = "core"
  BY DEF Token

\* One contract is another than it was.
LEMMA EditCore ==
    ASSUME Lengths, NEW n \in DOMAIN cores, NEW c \in Core, UNCHANGED tokens,
           cores' = [cores EXCEPT ![n] = c]
    PROVE  /\ Lengths' /\ DOMAIN cores' = DOMAIN cores
           /\ \A m \in DOMAIN cores : cores'[m] = IF m = n THEN c ELSE cores[m]
  BY DEF Lengths

\* What has taken money stays as it is when a contract changes otherwise.
LEMMA EditKeepsMinters ==
    ASSUME Lengths, NoKeyCanMint, NEW n \in DOMAIN cores, NEW c \in Core, UNCHANGED tokens,
           cores' = [cores EXCEPT ![n] = c],
           \/ ~c.bootstrapped \/ Safe(n)
           \/ cores[n] \in Core /\ cores[n] # None /\ c.bootstrapped = cores[n].bootstrapped
    PROVE  NoKeyCanMint'
  BY EditCore DEF NoKeyCanMint, Safe

\* A deployment that stands survives an edit that keeps it bootstrapped.
LEMMA EditKeepsStanding ==
    ASSUME Lengths, NEW n \in DOMAIN cores, NEW c \in Core, UNCHANGED tokens,
           cores' = [cores EXCEPT ![n] = c],
           cores[n] \in Core /\ cores[n].bootstrapped => c.bootstrapped
    PROVE  \A m : Stands(m) => Stands(m)'
  BY EditCore DEF Stands

-----------------------------------------------------------------------------
(* The steps of deploy.mjs.                                                *)

LEMMA DeployBegins ==
    ASSUME ReleaseInv, (\E handOver \in BOOLEAN : RunDeploy(handOver)) \/ Upload
    PROVE  ReleaseInv'
<1>1. UNCHANGED <<tokens, cores, artifact, record, env>>
  BY DEF RunDeploy, Upload, chain, files
<1>2. /\ Lengths' /\ NoKeyCanMint' /\ FilesNameWhatStands' /\ artifact' \in Builds
  BY <1>1 DEF ReleaseInv, Lengths, NoKeyCanMint, FilesNameWhatStands, Stands
<1>3. ASSUME NEW handOver \in BOOLEAN, RunDeploy(handOver)
      PROVE  ReleaseInv'
  <2>1. /\ RunShape' /\ run'.at = "upload" /\ run'.core = Len(tokens) + 1
    BY <1>3 DEF RunDeploy, Idle, RunShape
  <2>2. /\ env # None => env.core # Len(tokens) + 1
        /\ record # None => record.core # Len(tokens) + 1
    BY DEF ReleaseInv, FilesNameWhatStands, Stands, Lengths
  <2>3. DeployHasCome'
    BY <1>1, <2>1, <2>2 DEF DeployHasCome, DeploySteps
  <2>4. UpgradeHasCome'
    BY <2>1 DEF UpgradeHasCome, UpgradeSteps
  <2> QED
    BY <1>2, <2>1, <2>3, <2>4 DEF ReleaseInv, DeploySteps
<1>4. CASE Upload
  <2>1. /\ RunShape' /\ run.at = "upload" /\ run'.at = "token" /\ run'.core = run.core
        /\ run'.build = artifact
    BY <1>4 DEF Upload, Following, RunShape, ReleaseInv
  <2>2. DeployHasCome'
    BY <1>1, <2>1 DEF ReleaseInv, DeployHasCome, DeploySteps
  <2>3. UpgradeHasCome'
    BY <2>1 DEF UpgradeHasCome, UpgradeSteps
  <2> QED
    BY <1>2, <2>1, <2>2, <2>3 DEF ReleaseInv, DeploySteps
<1> QED
  BY <1>3, <1>4

\* A script's step moves it to the next one.
LEMMA TakesMoves ==
    ASSUME RunShape, NEW step \in DeploySteps \ {"upload", "write"}, Takes(step)
    PROVE  /\ run.at = step /\ run'.at = Following(step) /\ RunShape'
           /\ run'.core = run.core /\ run'.build = run.build /\ run'.option = run.option
  BY DEF Takes, RunShape

\* The new token keeps the invariant.
LEMMA TokenComesIn ==
    ASSUME ReleaseInv, InstantiateToken
    PROVE  ReleaseInv'
<1> DEFINE t == [minters |-> {"deployer"}, admin |-> "deployer"]
<1>1. /\ RunShape' /\ run.at = "token" /\ run'.at = "core" /\ run'.core = run.core
      /\ run'.build = run.build
  BY TakesMoves DEF InstantiateToken, Following, ReleaseInv, DeploySteps
<1>2. /\ tokens' = Append(tokens, t) /\ cores' = Append(cores, None)
      /\ UNCHANGED <<artifact, record, env>> /\ run.core = Len(tokens) + 1
      /\ run.build \in Builds
  BY <1>1 DEF InstantiateToken, files, ReleaseInv, DeployHasCome
<1>3. t \in Token /\ Lengths
  BY DEF Token, ReleaseInv
<1> HIDE DEF t
<1>4. /\ Lengths' /\ Len(tokens') = Len(tokens) + 1 /\ Len(tokens) \in Nat
      /\ Len(tokens) = Len(cores) /\ DOMAIN cores = 1 .. Len(tokens)
      /\ DOMAIN tokens = 1 .. Len(tokens) /\ DOMAIN tokens' = 1 .. Len(tokens')
      /\ DOMAIN cores' = 1 .. Len(tokens')
      /\ \A m \in 1 .. Len(tokens) : cores'[m] = cores[m] /\ tokens'[m] = tokens[m]
      /\ cores'[Len(tokens) + 1] = None
  BY <1>2, <1>3 DEF Lengths
<1>5. NoKeyCanMint'
  BY <1>4 DEF ReleaseInv, NoKeyCanMint
<1>6. \A m : Stands(m) => Stands(m)'
  BY <1>4 DEF Stands
<1>7. FilesNameWhatStands'
  BY <1>2, <1>6 DEF ReleaseInv, FilesNameWhatStands
<1>8. DeployHasCome'
  BY <1>1, <1>2, <1>4 DEF ReleaseInv, DeployHasCome, DeploySteps
<1>9. UpgradeHasCome'
  BY <1>1 DEF UpgradeHasCome, UpgradeSteps
<1> QED
  BY <1>1, <1>2, <1>4, <1>5, <1>7, <1>8, <1>9 DEF ReleaseInv, DeploySteps

\* So does the new contract.
LEMMA CoreComesIn ==
    ASSUME ReleaseInv, InstantiateCore
    PROVE  ReleaseInv'
<1> DEFINE c == [build |-> run.build, bootstrapped |-> FALSE, governed |-> FALSE]
           n == run.core
<1>1. /\ RunShape' /\ run.at = "core" /\ run'.at = "minters" /\ run'.core = n
      /\ run'.build = run.build
  BY TakesMoves DEF InstantiateCore, Following, ReleaseInv, DeploySteps
<1>2. /\ cores' = [cores EXCEPT ![n] = c] /\ UNCHANGED <<tokens, artifact, record, env>>
      /\ n \in DOMAIN cores /\ n \in DOMAIN tokens /\ run.build \in Builds /\ Lengths /\ cores[n] = None
  BY <1>1 DEF InstantiateCore, files, ReleaseInv, DeployHasCome, Lengths
<1>3. c \in Core /\ ~c.bootstrapped /\ c.build = run.build
  BY <1>2 DEF Core
<1> HIDE DEF c
<1>4. /\ Lengths' /\ DOMAIN cores' = DOMAIN cores
      /\ \A m \in DOMAIN cores : cores'[m] = IF m = n THEN c ELSE cores[m]
  BY <1>2, <1>3, EditCore
<1>5. NoKeyCanMint'
  BY <1>2, <1>3, EditKeepsMinters DEF ReleaseInv
<1>6. FilesNameWhatStands'
  <2>1. ASSUME NEW m, Stands(m), m # n
        PROVE  Stands(m)'
    BY <1>2, <1>4, <2>1 DEF Stands
  <2>2. (env # None => env.core # n) /\ (record # None => record.core # n)
    BY <1>1 DEF ReleaseInv, DeployHasCome, DeploySteps
  <2> QED
    BY <1>2, <2>1, <2>2 DEF ReleaseInv, FilesNameWhatStands
<1>7. DeployHasCome'
  BY <1>1, <1>2, <1>3, <1>4 DEF ReleaseInv, DeployHasCome, DeploySteps
<1>8. UpgradeHasCome'
  BY <1>1 DEF UpgradeHasCome, UpgradeSteps
<1> QED
  BY <1>1, <1>2, <1>4, <1>5, <1>6, <1>7, <1>8 DEF ReleaseInv, DeploySteps

\* A step over the token of a contract that has taken no money.
LEMMA TokenEditKeeps ==
    ASSUME ReleaseInv, NEW n \in DOMAIN tokens, NEW t \in Token, cores[n] \in Core,
           ~cores[n].bootstrapped, tokens' = [tokens EXCEPT ![n] = t],
           UNCHANGED <<cores, artifact, record, env>>
    PROVE  /\ Lengths' /\ NoKeyCanMint' /\ FilesNameWhatStands' /\ DOMAIN tokens' = DOMAIN tokens
           /\ tokens'[n] = t
<1>1. /\ Lengths' /\ DOMAIN tokens' = DOMAIN tokens /\ tokens'[n] = t
      /\ \A m \in DOMAIN tokens : m # n => tokens'[m] = tokens[m]
  BY DEF ReleaseInv, Lengths
<1>2. DOMAIN cores = DOMAIN tokens
  BY DEF ReleaseInv, Lengths
<1>3. NoKeyCanMint'
  BY <1>1, <1>2 DEF ReleaseInv, NoKeyCanMint
<1>4. FilesNameWhatStands'
  BY DEF ReleaseInv, FilesNameWhatStands, Stands
<1> QED
  BY <1>1, <1>3, <1>4

\* So does giving the token away.
LEMMA MintersAndAdmin ==
    ASSUME ReleaseInv, SetMinters \/ ChangeAdmin
    PROVE  ReleaseInv'
<1> DEFINE n == run.core
<1>1. CASE SetMinters
  <2>1. /\ RunShape' /\ run.at = "minters" /\ run'.at = "admin" /\ run'.core = n
        /\ run'.build = run.build
    BY <1>1, TakesMoves DEF SetMinters, Following, ReleaseInv, DeploySteps
  <2>2. /\ n \in DOMAIN tokens /\ cores[n] \in Core /\ ~cores[n].bootstrapped
        /\ cores[n].build = run.build /\ run.build \in Builds
    BY <2>1 DEF ReleaseInv, DeployHasCome
  <2>3. /\ tokens' = [tokens EXCEPT ![n] = [tokens[n] EXCEPT !.minters = {"core"}]]
        /\ UNCHANGED <<cores, artifact, record, env>>
    BY <1>1 DEF SetMinters, files
  <2>4. tokens[n] \in Token
    BY <2>2 DEF ReleaseInv, Lengths
  <2>5. PICK t \in Token : /\ t = [tokens[n] EXCEPT !.minters = {"core"}]
                           /\ t.minters = {"core"}
    BY <2>4, TokenEdits
  <2>6. /\ Lengths' /\ NoKeyCanMint' /\ FilesNameWhatStands' /\ DOMAIN tokens' = DOMAIN tokens
        /\ tokens'[n] = t
    BY <2>2, <2>3, <2>5, TokenEditKeeps
  <2>7. DeployHasCome'
    BY <2>1, <2>2, <2>3, <2>5, <2>6 DEF ReleaseInv, DeployHasCome, DeploySteps
  <2>8. UpgradeHasCome'
    BY <2>1 DEF UpgradeHasCome, UpgradeSteps
  <2> QED
    BY <2>1, <2>3, <2>6, <2>7, <2>8 DEF ReleaseInv, DeploySteps
<1>2. CASE ChangeAdmin
  <2>1. /\ RunShape' /\ run.at = "admin" /\ run'.at = "seed" /\ run'.core = n
        /\ run'.build = run.build
    BY <1>2, TakesMoves DEF ChangeAdmin, Following, ReleaseInv, DeploySteps
  <2>2. /\ n \in DOMAIN tokens /\ cores[n] \in Core /\ ~cores[n].bootstrapped
        /\ cores[n].build = run.build /\ run.build \in Builds /\ tokens[n].minters = {"core"}
    BY <2>1 DEF ReleaseInv, DeployHasCome
  <2>3. /\ tokens' = [tokens EXCEPT ![n] = [tokens[n] EXCEPT !.admin = "core"]]
        /\ UNCHANGED <<cores, artifact, record, env>>
    BY <1>2 DEF ChangeAdmin, files
  <2>4. tokens[n] \in Token
    BY <2>2 DEF ReleaseInv, Lengths
  <2>5. PICK t \in Token : /\ t = [tokens[n] EXCEPT !.admin = "core"]
                           /\ t.minters = tokens[n].minters /\ t.admin = "core"
    BY <2>4, TokenEdits
  <2>6. /\ Lengths' /\ NoKeyCanMint' /\ FilesNameWhatStands' /\ DOMAIN tokens' = DOMAIN tokens
        /\ tokens'[n] = t
    BY <2>2, <2>3, <2>5, TokenEditKeeps
  <2>7. DeployHasCome'
    BY <2>1, <2>2, <2>3, <2>5, <2>6 DEF ReleaseInv, DeployHasCome, DeploySteps
  <2>8. UpgradeHasCome'
    BY <2>1 DEF UpgradeHasCome, UpgradeSteps
  <2> QED
    BY <2>1, <2>3, <2>6, <2>7, <2>8 DEF ReleaseInv, DeploySteps
<1> QED
  BY <1>1, <1>2

\* So do the seed and the handover.
LEMMA DeployEnds ==
    ASSUME ReleaseInv, Bootstrap \/ HandOver
    PROVE  ReleaseInv'
<1> DEFINE n == run.core
<1>1. /\ RunShape' /\ run'.core = n /\ run'.build = run.build
      /\ \/ Bootstrap /\ run.at = "seed" /\ run'.at = "handover"
         \/ HandOver /\ run.at = "handover" /\ run'.at = "write"
  BY TakesMoves DEF Bootstrap, HandOver, Following, ReleaseInv, DeploySteps
<1>2. /\ n \in DOMAIN tokens /\ n \in DOMAIN cores /\ cores[n] \in Core
      /\ cores[n].build = run.build /\ run.build \in Builds /\ Lengths /\ NoKeyCanMint
  BY <1>1 DEF ReleaseInv, DeployHasCome, Lengths
<1>3. UNCHANGED <<tokens, artifact, record, env>>
  BY DEF Bootstrap, HandOver, files
<1>4. UpgradeHasCome'
  BY <1>1 DEF UpgradeHasCome, UpgradeSteps
<1>5. CASE UNCHANGED cores /\ run.at = "handover"
  <2>1. Lengths' /\ NoKeyCanMint' /\ FilesNameWhatStands'
    BY <1>3, <1>5 DEF ReleaseInv, Lengths, NoKeyCanMint, FilesNameWhatStands, Stands
  <2>2. DeployHasCome'
    BY <1>1, <1>2, <1>3, <1>5 DEF ReleaseInv, DeployHasCome, DeploySteps
  <2> QED
    BY <1>1, <1>3, <1>4, <2>1, <2>2 DEF ReleaseInv, DeploySteps
<1>6. ASSUME NEW c \in Core, cores' = [cores EXCEPT ![n] = c], c.bootstrapped,
             c.build = cores[n].build,
             Safe(n) \/ (c.bootstrapped = cores[n].bootstrapped /\ cores[n] # None)
      PROVE  ReleaseInv'
  <2>1. /\ Lengths' /\ DOMAIN cores' = DOMAIN cores
        /\ \A m \in DOMAIN cores : cores'[m] = IF m = n THEN c ELSE cores[m]
    BY <1>2, <1>3, <1>6, EditCore
  <2>2. NoKeyCanMint'
    BY <1>2, <1>3, <1>6, EditKeepsMinters
  <2>3. FilesNameWhatStands'
    BY <1>2, <1>3, <1>6, EditKeepsStanding DEF ReleaseInv, FilesNameWhatStands
  <2>4. DeployHasCome'
    BY <1>1, <1>2, <1>3, <1>6, <2>1 DEF ReleaseInv, DeployHasCome, DeploySteps
  <2> QED
    BY <1>1, <1>3, <1>4, <2>1, <2>2, <2>3, <2>4 DEF ReleaseInv, DeploySteps
<1>7. CASE Bootstrap
  <2>1. cores' = [cores EXCEPT ![n] = [cores[n] EXCEPT !.bootstrapped = TRUE]]
    BY <1>7 DEF Bootstrap
  <2>2. Safe(n)
    BY <1>1, <1>7 DEF Bootstrap, Takes, ReleaseInv, DeployHasCome, Safe
  <2>3. PICK c \in Core : /\ c = [cores[n] EXCEPT !.bootstrapped = TRUE]
                         /\ c.bootstrapped /\ c.build = cores[n].build
    BY <1>2, CoreEdits
  <2>4. cores' = [cores EXCEPT ![n] = c]
    BY <2>1, <2>3, Zenon
  <2>5. c.bootstrapped /\ c.build = cores[n].build
    BY <2>3
  <2> QED
    BY <1>6, <2>2, <2>4, <2>5
<1>8. CASE HandOver
  <2>1. \/ UNCHANGED cores
        \/ cores' = [cores EXCEPT ![n] = [cores[n] EXCEPT !.governed = TRUE]]
    BY <1>8 DEF HandOver
  <2>2. run.at = "handover" /\ cores[n].bootstrapped
    BY <1>8 DEF HandOver, Takes, ReleaseInv, DeployHasCome
  <2>3. PICK c \in Core : /\ c = [cores[n] EXCEPT !.governed = TRUE]
                         /\ c.bootstrapped = cores[n].bootstrapped
                         /\ c.build = cores[n].build
    BY <1>2, CoreEdits
  <2>4. UNCHANGED cores \/ cores' = [cores EXCEPT ![n] = c]
    BY <2>1, <2>3, Zenon
  <2>5. cores[n] # None
    BY <1>2, NoneIsNothing
  <2>6. c.bootstrapped
    BY <2>2, <2>3, Zenon
  <2>7. CASE UNCHANGED cores
    BY <1>5, <2>2, <2>7
  <2>8. CASE cores' = [cores EXCEPT ![n] = c]
    <3>1. c.build = cores[n].build /\ c.bootstrapped = cores[n].bootstrapped
      BY <2>3
    <3> QED
      BY <1>6, <2>5, <2>6, <2>8, <3>1
  <2> QED
    BY <2>4, <2>7, <2>8
<1> QED
  BY <1>7, <1>8

\* A script that ends, having written its record or having died.
LEMMA ScriptEnds ==
    ASSUME ReleaseInv, run' = Idle, UNCHANGED <<tokens, cores, artifact>>, FilesNameWhatStands'
    PROVE  ReleaseInv'
<1>1. RunShape' /\ run'.at = "idle"
  BY DEF RunShape, Idle
<1>2. DeployHasCome' /\ UpgradeHasCome'
  BY <1>1 DEF DeployHasCome, UpgradeHasCome, DeploySteps, UpgradeSteps
<1>3. Lengths' /\ NoKeyCanMint'
  BY DEF ReleaseInv, Lengths, NoKeyCanMint
<1> QED
  BY <1>1, <1>2, <1>3 DEF ReleaseInv

\* Writing the record names a contract that stands.
LEMMA WritingKeeps ==
    ASSUME ReleaseInv, WriteDeployment
    PROVE  /\ ReleaseInv'
           /\ cores[record'.core].bootstrapped /\ cores[record'.core].build = record'.build
           /\ env # None => env.core # record'.core
           /\ UNCHANGED <<cores, env>>
<1>1. /\ run.at = "write" /\ record' = [core |-> run.core, build |-> run.build]
      /\ run' = Idle /\ UNCHANGED <<tokens, cores, artifact, env>>
  BY DEF WriteDeployment, chain
<1>2. /\ run.core \in DOMAIN cores /\ cores[run.core] \in Core /\ run.build \in Builds
      /\ cores[run.core].bootstrapped /\ cores[run.core].build = run.build
      /\ env # None => env.core # run.core
  BY <1>1 DEF ReleaseInv, DeployHasCome, DeploySteps, Lengths
<1>3. FilesNameWhatStands'
  BY <1>1, <1>2 DEF ReleaseInv, FilesNameWhatStands, Stands
<1> QED
  BY <1>1, <1>2, <1>3, ScriptEnds

-----------------------------------------------------------------------------
(* The steps of upgrade.mjs.                                               *)

LEMMA UpgradeMoves ==
    ASSUME ReleaseInv, UNCHANGED <<tokens, cores, artifact, record, env>>, RunShape',
           run'.at \in UpgradeSteps, record # None, run'.core = record.core,
           run'.build \in Builds,
           run'.at \in {"reread", "judge", "env"} => cores[record.core].build = run'.build,
           run'.at = "env" => record.build = run'.build
    PROVE  ReleaseInv'
<1>1. Lengths' /\ NoKeyCanMint' /\ FilesNameWhatStands' /\ artifact' \in Builds
  BY DEF ReleaseInv, Lengths, NoKeyCanMint, FilesNameWhatStands, Stands
<1>2. UpgradeHasCome'
  BY DEF UpgradeHasCome
<1>3. DeployHasCome'
  BY DEF DeployHasCome, DeploySteps, UpgradeSteps
<1> QED
  BY <1>1, <1>2, <1>3 DEF ReleaseInv

\* The steps of an upgrade that only read keep the invariant.
LEMMA UpgradeReads ==
    ASSUME ReleaseInv,
           (\E dryRun \in BOOLEAN : RunUpgrade(dryRun)) \/ TakeSnapshot \/ StoreCode \/ ReadBack
    PROVE  ReleaseInv'
<1>0. RunShape /\ artifact \in Builds
  BY DEF ReleaseInv
<1>1. UNCHANGED <<tokens, cores, artifact, record, env>>
  BY DEF RunUpgrade, TakeSnapshot, StoreCode, ReadBack, chain, files
<1>2. ASSUME NEW dryRun \in BOOLEAN, RunUpgrade(dryRun)
      PROVE  ReleaseInv'
  <2>1. /\ RunShape' /\ run'.at = "snapshot" /\ record # None /\ run'.core = record.core
        /\ run'.build = record.build
    BY <1>2 DEF RunUpgrade, Idle, RunShape
  <2>2. record.build \in Builds
    BY <2>1 DEF ReleaseInv, FilesNameWhatStands
  <2> QED
    BY <1>1, <2>1, <2>2, UpgradeMoves DEF UpgradeSteps
<1>3. CASE TakeSnapshot
  <2>1. /\ RunShape' /\ run.at = "snapshot" /\ run'.at = "store" /\ run'.core = run.core
        /\ run'.build = run.build
    BY <1>0, <1>3 DEF TakeSnapshot, RunShape
  <2> QED
    BY <1>1, <2>1, UpgradeMoves DEF UpgradeSteps, ReleaseInv, UpgradeHasCome
<1>4. CASE StoreCode
  <2>1. CASE Ends
    <3>1. FilesNameWhatStands'
      BY <1>1 DEF ReleaseInv, FilesNameWhatStands, Stands
    <3> QED
      BY <1>1, <2>1, <3>1, ScriptEnds DEF Ends
  <2>2. CASE run' = [run EXCEPT !.at = "migrate", !.build = artifact]
    <3>1. /\ RunShape' /\ run.at = "store" /\ run'.at = "migrate" /\ run'.core = run.core
          /\ run'.build = artifact
      BY <1>0, <1>4, <2>2 DEF StoreCode, RunShape
    <3> QED
      BY <1>0, <1>1, <3>1, UpgradeMoves DEF UpgradeSteps, ReleaseInv, UpgradeHasCome
  <2> QED
    BY <1>4, <2>1, <2>2 DEF StoreCode
<1>5. CASE ReadBack
  <2>1. /\ RunShape' /\ run.at = "reread" /\ run'.at = "judge" /\ run'.core = run.core
        /\ run'.build = run.build
    BY <1>0, <1>5 DEF ReadBack, RunShape
  <2> QED
    BY <1>1, <2>1, UpgradeMoves DEF UpgradeSteps, ReleaseInv, UpgradeHasCome
<1> QED
  BY <1>2, <1>3, <1>4, <1>5

\* The code of a contract changes, with the script that changes it or with none.
LEMMA CodeChanges ==
    ASSUME ReleaseInv, NEW n \in DOMAIN cores, cores[n] # None, NEW c \in Core,
           cores' = [cores EXCEPT ![n] = c], c.bootstrapped = cores[n].bootstrapped,
           UNCHANGED <<tokens, artifact, record, env>>
    PROVE  /\ Lengths' /\ NoKeyCanMint' /\ FilesNameWhatStands'
           /\ cores'[n] = c
<1>1. Lengths /\ NoKeyCanMint /\ cores[n] \in Core
  BY DEF ReleaseInv, Lengths
<1>2. Lengths' /\ cores'[n] = c
  BY <1>1, EditCore
<1>3. NoKeyCanMint'
  BY <1>1, EditKeepsMinters
<1>4. FilesNameWhatStands'
  BY <1>1, EditKeepsStanding DEF ReleaseInv, FilesNameWhatStands
<1> QED
  BY <1>2, <1>3, <1>4

\* So does the migration.
LEMMA MigrationKeeps ==
    ASSUME ReleaseInv, MigrateCore
    PROVE  ReleaseInv'
<1> DEFINE n == run.core
<1>1. /\ run.at = "migrate" /\ run' = [run EXCEPT !.at = "reread"]
      /\ cores' = [cores EXCEPT ![n] = [cores[n] EXCEPT !.build = run.build]]
      /\ UNCHANGED <<tokens, artifact, record, env>>
  BY DEF MigrateCore, files
<1>2. /\ record # None /\ n = record.core /\ run.build \in Builds
      /\ n \in DOMAIN cores /\ cores[n] \in Core /\ cores[n] # None
  BY <1>1, NoneIsNothing
  DEF ReleaseInv, UpgradeHasCome, UpgradeSteps, FilesNameWhatStands, Stands
<1>3. /\ RunShape' /\ run'.at = "reread" /\ run'.core = n /\ run'.build = run.build
  <2>1. run' = [run EXCEPT !.at = "reread"] /\ RunShape
    BY <1>1, Zenon DEF ReleaseInv
  <2> QED
    BY <2>1 DEF RunShape
<1>4. PICK c \in Core : /\ c = [cores[n] EXCEPT !.build = run.build]
                       /\ c.build = run.build
                       /\ c.bootstrapped = cores[n].bootstrapped
  BY <1>2, CoreEdits, ZenonT(30)
<1>5. cores' = [cores EXCEPT ![n] = c]
  BY <1>1, <1>4, Zenon
<1>6. c.build = run.build /\ c.bootstrapped = cores[n].bootstrapped
  BY <1>4
<1>7. UNCHANGED <<tokens, artifact, record, env>>
  BY <1>1, Zenon
<1>8. /\ Lengths' /\ NoKeyCanMint' /\ FilesNameWhatStands' /\ cores'[n] = c
  BY <1>2, <1>5, <1>6, <1>7, CodeChanges
<1>9. UpgradeHasCome'
  BY <1>2, <1>3, <1>6, <1>7, <1>8 DEF UpgradeHasCome
<1>10. DeployHasCome'
  BY <1>3 DEF DeployHasCome, DeploySteps
<1> QED
  BY <1>3, <1>7, <1>8, <1>9, <1>10 DEF ReleaseInv, UpgradeSteps

\* So does recording it.
LEMMA RecordingKeeps ==
    ASSUME ReleaseInv, RecordUpgrade
    PROVE  ReleaseInv'
<1>1. /\ run.at = "judge" /\ record' = [record EXCEPT !.build = run.build]
      /\ run' = [Idle EXCEPT !.at = "env", !.core = run.core, !.build = run.build]
      /\ UNCHANGED <<tokens, cores, artifact, env>>
  BY DEF RecordUpgrade, NewRecord, chain
<1>2. /\ record # None /\ run.core = record.core /\ run.build \in Builds
      /\ cores[run.core].build = run.build
      /\ record = [core |-> record.core, build |-> record.build] /\ Stands(record.core)
  BY <1>1 DEF ReleaseInv, UpgradeHasCome, UpgradeSteps, FilesNameWhatStands
<1>3. /\ RunShape' /\ run'.at = "env" /\ run'.core = run.core /\ run'.build = run.build
  BY <1>1 DEF Idle, RunShape
<1>4. record' = [core |-> record.core, build |-> run.build]
  BY <1>1, <1>2
<1>5. FilesNameWhatStands'
  BY <1>1, <1>2, <1>4 DEF ReleaseInv, FilesNameWhatStands, Stands
<1>6. UpgradeHasCome'
  <2>1. record' # None
    <3>1. record.core \in Nat
      BY <1>2 DEF Stands, ReleaseInv, Lengths
    <3> QED
      BY <1>2, <1>4, <3>1, NoneIsNothing DEF Deployed
  <2> QED
    BY <1>1, <1>2, <1>3, <1>4, <2>1 DEF UpgradeHasCome
<1>7. DeployHasCome'
  BY <1>3 DEF DeployHasCome, DeploySteps
<1>8. Lengths' /\ NoKeyCanMint'
  BY <1>1 DEF ReleaseInv, Lengths, NoKeyCanMint
<1> QED
  BY <1>1, <1>3, <1>5, <1>6, <1>7, <1>8 DEF ReleaseInv, UpgradeSteps

\* The front end is left with what the record says, if it is of this contract.
LEMMA EnvKeeps ==
    ASSUME ReleaseInv, UpdateEnv
    PROVE  /\ ReleaseInv'
           /\ cores[record.core].bootstrapped /\ cores[record.core].build = record.build
           /\ env' # None /\ env'.core = record.core => env' = record
           /\ UNCHANGED <<cores, record>>
<1>1. /\ run.at = "env" /\ run' = Idle /\ UNCHANGED <<tokens, cores, artifact, record>>
      /\ env' = IF env = None THEN None ELSE [env EXCEPT !.build = run.build]
  BY DEF UpdateEnv, chain
<1>2. /\ record # None /\ run.core = record.core /\ record.build = run.build
      /\ cores[run.core].build = run.build
      /\ record = [core |-> record.core, build |-> record.build] /\ Stands(record.core)
      /\ env # None => env = [core |-> env.core, build |-> env.build] /\ Stands(env.core)
  BY <1>1 DEF ReleaseInv, UpgradeHasCome, UpgradeSteps, FilesNameWhatStands
<1>3. env # None => env' = [core |-> env.core, build |-> record.build]
  BY <1>1, <1>2
<1>4. FilesNameWhatStands'
  BY <1>1, <1>2, <1>3 DEF ReleaseInv, FilesNameWhatStands, Stands
<1>5. env' # None => env # None
  BY <1>1
<1> QED
  BY <1>1, <1>2, <1>3, <1>4, <1>5, ScriptEnds DEF Stands

-----------------------------------------------------------------------------
(* Everything else.                                                        *)

LEMMA EndingKeeps ==
    ASSUME ReleaseInv, ReportDamage \/ Die
    PROVE  ReleaseInv'
<1>1. run' = Idle /\ UNCHANGED <<tokens, cores, artifact, record, env>>
  BY DEF ReportDamage, Die, Ends, chain, files
<1>2. FilesNameWhatStands'
  BY <1>1 DEF ReleaseInv, FilesNameWhatStands, Stands
<1> QED
  BY <1>1, <1>2, ScriptEnds

\* So do a rebuild, the operator's paste and other traffic.
LEMMA FilesChange ==
    ASSUME ReleaseInv, Rebuild \/ PasteEnv \/ Traffic \/ UNCHANGED releaseVars
    PROVE  ReleaseInv'
<1>1. UNCHANGED <<tokens, cores, record, run>> /\ artifact' \in Builds
  BY DEF Rebuild, PasteEnv, Traffic, Transact, releaseVars, chain, files, ReleaseInv
<1>2. env' = env \/ (run = Idle /\ record # None /\ env' = record)
  BY DEF Rebuild, PasteEnv, Traffic, Transact, releaseVars, files
<1>3. FilesNameWhatStands'
  BY <1>1, <1>2 DEF ReleaseInv, FilesNameWhatStands, Stands
<1>4. run.at \in DeploySteps => env' = env
  BY <1>2 DEF Idle, DeploySteps
<1>5. DeployHasCome' /\ UpgradeHasCome' /\ RunShape'
  BY <1>1, <1>4 DEF ReleaseInv, DeployHasCome, UpgradeHasCome, RunShape
<1>6. Lengths' /\ NoKeyCanMint'
  BY <1>1 DEF ReleaseInv, Lengths, NoKeyCanMint
<1> QED
  BY <1>1, <1>3, <1>5, <1>6 DEF ReleaseInv

\* By hand, while no script runs.
LEMMA ByHandKeeps ==
    ASSUME ReleaseInv, HandOverByHand \/ RelayVoted
    PROVE  ReleaseInv'
<1>1. run = Idle /\ UNCHANGED <<tokens, artifact, record, env, run>>
  BY DEF HandOverByHand, RelayVoted, files
<1>2. PICK n \in DOMAIN cores :
          /\ cores[n] # None
          /\ \/ cores' = [cores EXCEPT ![n] = [cores[n] EXCEPT !.governed = TRUE]]
             \/ \E b \in Builds : cores' = [cores EXCEPT ![n] = [cores[n] EXCEPT !.build = b]]
  BY DEF HandOverByHand, RelayVoted
<1>3. n \in DOMAIN cores /\ cores[n] # None /\ cores[n] \in Core
  <2>1. n \in DOMAIN cores /\ cores[n] # None
    BY <1>2, Zenon
  <2> QED
    BY <2>1 DEF ReleaseInv, Lengths
<1>4. \E c \in Core : /\ cores' = [cores EXCEPT ![n] = c]
                     /\ c.bootstrapped = cores[n].bootstrapped
  <2>1. CASE cores' = [cores EXCEPT ![n] = [cores[n] EXCEPT !.governed = TRUE]]
    <3>1. PICK c \in Core : /\ c = [cores[n] EXCEPT !.governed = TRUE]
                           /\ c.bootstrapped = cores[n].bootstrapped
      BY <1>3, CoreEdits
    <3>2. cores' = [cores EXCEPT ![n] = c]
      BY <2>1, <3>1, Zenon
    <3> QED
      BY <3>1, <3>2, Zenon
  <2>2. ASSUME NEW b \in Builds, cores' = [cores EXCEPT ![n] = [cores[n] EXCEPT !.build = b]]
        PROVE  \E c \in Core : /\ cores' = [cores EXCEPT ![n] = c]
                              /\ c.bootstrapped = cores[n].bootstrapped
    <3>1. PICK c \in Core : /\ c = [cores[n] EXCEPT !.build = b]
                           /\ c.bootstrapped = cores[n].bootstrapped
      BY <1>3, CoreEdits
    <3>2. cores' = [cores EXCEPT ![n] = c]
      BY <2>2, <3>1, Zenon
    <3> QED
      BY <3>1, <3>2, Zenon
  <2> QED
    BY <1>2, <2>1, <2>2, Zenon
<1>5. PICK c \in Core : /\ cores' = [cores EXCEPT ![n] = c]
                       /\ c.bootstrapped = cores[n].bootstrapped
  BY <1>4, Zenon
<1>6. /\ Lengths' /\ NoKeyCanMint' /\ FilesNameWhatStands'
  BY <1>1, <1>3, <1>5, CodeChanges
<1>7. run'.at = "idle" /\ RunShape'
  BY <1>1 DEF Idle, RunShape
<1>8. DeployHasCome' /\ UpgradeHasCome'
  BY <1>7 DEF DeployHasCome, UpgradeHasCome, DeploySteps, UpgradeSteps
<1> QED
  BY <1>1, <1>6, <1>7, <1>8 DEF ReleaseInv

\* So does every step.
LEMMA ReleaseStep == ReleaseInv /\ [ReleaseNext]_releaseVars => ReleaseInv'
<1> SUFFICES ASSUME ReleaseInv, [ReleaseNext]_releaseVars
             PROVE  ReleaseInv'
  OBVIOUS
<1>1. CASE DeployStep
  BY <1>1, DeployBegins, TokenComesIn, CoreComesIn, MintersAndAdmin, DeployEnds, WritingKeeps
  DEF DeployStep
<1>2. CASE UpgradeStep
  BY <1>2, UpgradeReads, MigrationKeeps, RecordingKeeps, EndingKeeps, EnvKeeps
  DEF UpgradeStep
<1> QED
  BY <1>1, <1>2, EndingKeeps, FilesChange, ByHandKeeps DEF ReleaseNext

\* The first state has it.
LEMMA ReleaseBegins == ReleaseInit => ReleaseInv
<1> SUFFICES ASSUME ReleaseInit PROVE ReleaseInv
  OBVIOUS
<1>1. Lengths /\ NoKeyCanMint
  BY DEF ReleaseInit, Lengths, NoKeyCanMint
<1>2. RunShape /\ run.at = "idle"
  BY DEF ReleaseInit, Idle, RunShape
<1>3. DeployHasCome /\ UpgradeHasCome
  BY <1>2 DEF DeployHasCome, UpgradeHasCome, DeploySteps, UpgradeSteps
<1> QED
  BY <1>1, <1>2, <1>3 DEF ReleaseInit, ReleaseInv, FilesNameWhatStands

-----------------------------------------------------------------------------
(* The figures that an upgrade compares.                                   *)

\* A figure of window i at the first snapshot; a later window owes nothing.
Was(before, i) == IF i \in DOMAIN before.owed THEN before.owed[i] ELSE 0

\* How a reading may differ from the one before, given what the migration
\* destroyed since and what others moved.
Explained(before, now, gone, moved) ==
    /\ Supply \notin moved =>
         IF Supply \in gone THEN now.supply # before.supply ELSE now.supply = before.supply
    /\ Bonded \notin moved => (Bonded \notin gone => now.bonded >= before.bonded)
    /\ Bonded \notin moved /\ Rewards \notin moved =>
         IF Bonded \in gone THEN now.bonded < before.bonded ELSE now.bonded = before.bonded
    /\ Len(before.owed) <= Len(now.owed)
    /\ WindowCount \notin moved => Len(now.owed) = Len(before.owed)
    /\ \A i \in 1 .. PageSize : Owed(i) \in gone => i \in DOMAIN now.owed
    /\ \A i \in DOMAIN now.owed : Owed(i) \notin moved =>
         IF Owed(i) \in gone THEN now.owed[i] # Was(before, i)
         ELSE now.owed[i] = Was(before, i)

\* What a transaction of somebody else may change, by the figures it moves.
Moves(book, new, figures) ==
    /\ Supply \notin figures => new.supply = book.supply
    /\ Bonded \notin figures => new.bonded >= book.bonded
    /\ Bonded \notin figures /\ Rewards \notin figures => new.bonded = book.bonded
    /\ Len(book.owed) <= Len(new.owed)
    /\ WindowCount \notin figures => Len(new.owed) = Len(book.owed)
    /\ \A i \in DOMAIN new.owed :
         IF i \in DOMAIN book.owed THEN Owed(i) \notin figures => new.owed[i] = book.owed[i]
         ELSE new.owed[i] = 0

BooksInv ==
    /\ books \in Seq(Book) /\ Len(books) = Len(tokens)
    /\ \A n : Stands(n) => books[n].owed # << >>

RunInv ==
    /\ run.option \in BOOLEAN /\ run.core \in Nat /\ run.build \in Builds \cup {None}
    /\ run.before \in Book /\ run.after \in Book

VerdictInv ==
    /\ \A f \in lost : f \in {Supply, Bonded} \/ \E i \in Nat \ {0} : f = Owed(i)
    /\ run.at \in {"store", "migrate"} => lost = {}
    /\ run.at \in {"store", "migrate", "reread"} =>
         Explained(run.before, Snapshot(books[run.core]), lost, touched)
    /\ run.at = "judge" => Explained(run.before, run.after, lost, touched)

\* The figures have different names.
LEMMA FiguresDiffer ==
    /\ Supply # Bonded /\ Supply # Rewards /\ Supply # WindowCount
    /\ Bonded # Rewards /\ Bonded # WindowCount /\ Rewards # WindowCount
    /\ \A i : Owed(i) \notin {Supply, Bonded, Rewards, WindowCount}
    /\ \A i, j : Owed(i) = Owed(j) => i = j
    /\ Supply[1] # "owed" /\ Bonded[1] # "owed"
    /\ \A i : Owed(i)[1] = "owed" /\ Owed(i)[2] = i
BY DEF Supply, Bonded, Rewards, WindowCount, Owed

\* The parts of a book.
LEMMA BookParts ==
    ASSUME NEW book \in Book
    PROVE  /\ book.supply \in Nat /\ book.bonded \in Nat /\ book.owed \in Seq(Nat)
           /\ Len(book.owed) \in Nat /\ DOMAIN book.owed = 1 .. Len(book.owed)
BY DEF Book

\* A snapshot is the whole book but for the windows past the first page.
LEMMA SnapshotIs ==
    ASSUME NEW book \in Book
    PROVE  /\ Snapshot(book) \in Book
           /\ Snapshot(book).supply = book.supply /\ Snapshot(book).bonded = book.bonded
           /\ Len(Snapshot(book).owed)
                = (IF Len(book.owed) < PageSize THEN Len(book.owed) ELSE PageSize)
           /\ \A i \in DOMAIN Snapshot(book).owed :
                /\ i \in DOMAIN book.owed /\ i \in 1 .. PageSize
                /\ Snapshot(book).owed[i] = book.owed[i]
           /\ \A i \in DOMAIN book.owed \cap (1 .. PageSize) : i \in DOMAIN Snapshot(book).owed
<1> DEFINE n == IF Len(book.owed) < PageSize THEN Len(book.owed) ELSE PageSize
           page == SubSeq(book.owed, 1, n)
<1>1. book.owed \in Seq(Nat) /\ Len(book.owed) \in Nat /\ DOMAIN book.owed = 1 .. Len(book.owed)
  BY DEF Book
<1>2. n \in Nat /\ n <= Len(book.owed) /\ n <= PageSize
  BY <1>1, PageIsANumber
<1>3. \A i \in 1 .. PageSize : i \in 1 .. Len(book.owed) => i \in 1 .. n
  BY <1>1, PageIsANumber
<1>4. Snapshot(book) = [book EXCEPT !.owed = page]
  BY DEF Snapshot
<1> HIDE DEF n
<1>5. /\ page \in Seq(Nat) /\ Len(page) = n /\ DOMAIN page = 1 .. n
      /\ \A i \in 1 .. n : page[i] = book.owed[i]
  BY <1>1, <1>2
<1> HIDE DEF page
<1>6. /\ Snapshot(book) \in Book /\ Snapshot(book).owed = page
      /\ Snapshot(book).supply = book.supply /\ Snapshot(book).bonded = book.bonded
  BY <1>4, <1>5 DEF Book
<1>7. \A i \in 1 .. n : i \in 1 .. Len(book.owed) /\ i \in 1 .. PageSize
  BY <1>1, <1>2, PageIsANumber
<1>8. Len(page) = (IF Len(book.owed) < PageSize THEN Len(book.owed) ELSE PageSize)
  BY <1>5 DEF n
<1> QED
  BY <1>1, <1>3, <1>5, <1>6, <1>7, <1>8

\* At the first snapshot nothing differs.
LEMMA NothingMovedYet ==
    ASSUME NEW book \in Book
    PROVE  Explained(Snapshot(book), Snapshot(book), {}, {})
<1>1. PICK now \in Book : now = Snapshot(book)
  BY SnapshotIs
<1>2. now.bonded \in Nat /\ Len(now.owed) \in Nat
  BY DEF Book
<1>3. now.bonded >= now.bonded /\ Len(now.owed) <= Len(now.owed)
  BY <1>2
<1> QED
  BY <1>1, <1>3 DEF Explained, Was

\* Others' transactions explain what they change.
LEMMA MovesAreExplained ==
    ASSUME NEW before \in Book, NEW book \in Book, NEW new \in Book, NEW gone, NEW moved,
           NEW figures, Explained(before, Snapshot(book), gone, moved),
           Moves(book, new, figures)
    PROVE  Explained(before, Snapshot(new), gone, moved \cup figures)
<1>1. PICK now \in Book : now = Snapshot(book)
  BY SnapshotIs
<1>2. PICK then \in Book : then = Snapshot(new)
  BY SnapshotIs
<1>3. Explained(before, now, gone, moved)
  BY <1>1
<1>4. /\ now.supply = book.supply /\ now.bonded = book.bonded
      /\ then.supply = new.supply /\ then.bonded = new.bonded
  BY <1>1, <1>2, SnapshotIs
<1>5. /\ now.bonded \in Nat /\ then.bonded \in Nat /\ before.bonded \in Nat
      /\ Len(now.owed) \in Nat /\ Len(then.owed) \in Nat /\ Len(before.owed) \in Nat
      /\ Len(book.owed) \in Nat /\ Len(new.owed) \in Nat
      /\ DOMAIN now.owed = 1 .. Len(now.owed) /\ DOMAIN then.owed = 1 .. Len(then.owed)
      /\ DOMAIN book.owed = 1 .. Len(book.owed) /\ DOMAIN new.owed = 1 .. Len(new.owed)
      /\ DOMAIN before.owed = 1 .. Len(before.owed)
  BY BookParts
<1>6. Supply \notin moved \cup figures =>
        IF Supply \in gone THEN then.supply # before.supply ELSE then.supply = before.supply
  BY <1>3, <1>4 DEF Explained, Moves
<1>7. Bonded \notin moved \cup figures => (Bonded \notin gone => then.bonded >= before.bonded)
  <2>1. ASSUME Bonded \notin moved, Bonded \notin figures, Bonded \notin gone
        PROVE  then.bonded >= before.bonded
    <3>1. now.bonded >= before.bonded /\ then.bonded >= now.bonded
      BY <1>3, <1>4, <2>1 DEF Explained, Moves
    <3> QED
      BY <1>5, <3>1
  <2> QED
    BY <2>1
<1>8. Bonded \notin moved \cup figures /\ Rewards \notin moved \cup figures =>
        IF Bonded \in gone THEN then.bonded < before.bonded ELSE then.bonded = before.bonded
  BY <1>3, <1>4 DEF Explained, Moves
<1>9. /\ Len(now.owed)
           = (IF Len(book.owed) < PageSize THEN Len(book.owed) ELSE PageSize)
      /\ Len(then.owed)
           = (IF Len(new.owed) < PageSize THEN Len(new.owed) ELSE PageSize)
      /\ Len(book.owed) <= Len(new.owed)
  BY <1>1, <1>2, SnapshotIs DEF Moves
<1>10. Len(now.owed) <= Len(then.owed)
  BY <1>5, <1>9, PageIsANumber
<1>11. Len(before.owed) <= Len(now.owed)
  BY <1>3 DEF Explained
<1>12. Len(before.owed) <= Len(then.owed)
  BY <1>5, <1>10, <1>11
<1>13. WindowCount \notin moved \cup figures => Len(then.owed) = Len(before.owed)
  BY <1>3, <1>9 DEF Explained, Moves
<1>14. \A i \in 1 .. PageSize : Owed(i) \in gone => i \in DOMAIN now.owed
  BY <1>3 DEF Explained
<1>15. \A i \in DOMAIN now.owed : i \in DOMAIN then.owed
  BY <1>5, <1>10
<1>16. ASSUME NEW i \in DOMAIN then.owed, Owed(i) \notin moved \cup figures
       PROVE  IF Owed(i) \in gone THEN then.owed[i] # Was(before, i)
              ELSE then.owed[i] = Was(before, i)
  <2>1. /\ i \in DOMAIN new.owed /\ i \in 1 .. PageSize /\ then.owed[i] = new.owed[i]
    BY <1>2, SnapshotIs
  <2>2. CASE i \in DOMAIN book.owed
    <3>1. i \in DOMAIN now.owed /\ now.owed[i] = book.owed[i]
      BY <1>1, <2>1, <2>2, SnapshotIs
    <3>2. new.owed[i] = book.owed[i]
      BY <1>16, <2>1, <2>2 DEF Moves
    <3> QED
      BY <1>3, <1>16, <2>1, <3>1, <3>2 DEF Explained
  <2>3. CASE i \notin DOMAIN book.owed
    <3>1. new.owed[i] = 0
      BY <2>1, <2>3 DEF Moves
    <3>2. i \notin DOMAIN now.owed
      BY <1>1, <2>3, SnapshotIs
    <3>3. i \notin DOMAIN before.owed
      BY <1>5, <1>11, <3>2, <2>1
    <3> QED
      BY <1>14, <2>1, <3>1, <3>2, <3>3 DEF Was
  <2> QED
    BY <2>2, <2>3
<1> QED
  BY <1>2, <1>6, <1>7, <1>8, <1>12, <1>13, <1>14, <1>15, <1>16 DEF Explained

\* So does the migration, of which one figure is to blame.
LEMMA DestructionIsExplained ==
    ASSUME NEW before \in Book, NEW book \in Book, NEW moved,
           Explained(before, Snapshot(book), {}, moved),
           NEW f \in {Supply, Bonded} \cup {Owed(i) : i \in DOMAIN book.owed},
           Destroyed(book, f) # book
    PROVE  /\ Destroyed(book, f) \in Book
           /\ Len(Destroyed(book, f).owed) = Len(book.owed)
           /\ Explained(before, Snapshot(Destroyed(book, f)), {f}, moved)
<1> USE FiguresDiffer
<1>1. /\ book = [supply |-> book.supply, bonded |-> book.bonded, owed |-> book.owed]
      /\ book.supply \in Nat /\ book.bonded \in Nat /\ book.owed \in Seq(Nat)
      /\ Len(book.owed) \in Nat /\ DOMAIN book.owed = 1 .. Len(book.owed)
      /\ before.bonded \in Nat /\ Len(before.owed) \in Nat
  BY DEF Book
<1>2. PICK now \in Book : now = Snapshot(book)
  BY SnapshotIs
<1>3. Explained(before, now, {}, moved)
  BY <1>2
<1>4. ASSUME f = Supply
      PROVE  /\ Destroyed(book, f) \in Book /\ Destroyed(book, f).owed = book.owed
             /\ Destroyed(book, f).bonded = book.bonded
             /\ Destroyed(book, f).supply = 0 /\ book.supply # 0
  BY <1>1, <1>4 DEF Destroyed, Book
<1>5. ASSUME f = Bonded
      PROVE  /\ Destroyed(book, f) \in Book /\ Destroyed(book, f).owed = book.owed
             /\ Destroyed(book, f).supply = book.supply
             /\ Destroyed(book, f).bonded = 0 /\ book.bonded # 0
  BY <1>1, <1>5 DEF Destroyed, Book
<1>6. ASSUME NEW i \in DOMAIN book.owed, f = Owed(i)
      PROVE  /\ Destroyed(book, f) \in Book
             /\ Destroyed(book, f).supply = book.supply
             /\ Destroyed(book, f).bonded = book.bonded
             /\ Destroyed(book, f).owed = [book.owed EXCEPT ![i] = 0] /\ book.owed[i] # 0
             /\ Len(Destroyed(book, f).owed) = Len(book.owed)
  <2>1. Destroyed(book, f) = [book EXCEPT !.owed[i] = 0]
    BY <1>6 DEF Destroyed
  <2>2. [book.owed EXCEPT ![i] = 0] \in Seq(Nat)
        /\ Len([book.owed EXCEPT ![i] = 0]) = Len(book.owed)
    BY <1>1
  <2>3. Destroyed(book, f) = [supply |-> book.supply, bonded |-> book.bonded,
                              owed |-> [book.owed EXCEPT ![i] = 0]]
    BY <1>1, <2>1
  <2>4. book.owed[i] # 0
    <3>1. ASSUME book.owed[i] = 0 PROVE [book.owed EXCEPT ![i] = 0] = book.owed
      BY <1>1, <3>1
    <3> QED
      BY <1>1, <2>3, <3>1
  <2> QED
    BY <1>1, <2>2, <2>3, <2>4 DEF Book
<1>7. /\ Destroyed(book, f) \in Book /\ Len(Destroyed(book, f).owed) = Len(book.owed)
  BY <1>4, <1>5, <1>6
<1>8. PICK new \in Book : new = Destroyed(book, f)
  BY <1>7
<1>9. PICK then \in Book : then = Snapshot(new)
  BY SnapshotIs
<1>10. /\ now.supply = book.supply /\ now.bonded = book.bonded
       /\ then.supply = new.supply /\ then.bonded = new.bonded
       /\ Len(then.owed) = Len(now.owed) /\ DOMAIN then.owed = DOMAIN now.owed
       /\ DOMAIN now.owed = DOMAIN book.owed \cap (1 .. PageSize)
       /\ \A i \in DOMAIN now.owed : now.owed[i] = book.owed[i] /\ then.owed[i] = new.owed[i]
  <2>1. Len(then.owed) = Len(now.owed)
    BY <1>2, <1>7, <1>8, <1>9, SnapshotIs
  <2>2. DOMAIN then.owed = 1 .. Len(then.owed) /\ DOMAIN now.owed = 1 .. Len(now.owed)
    BY DEF Book
  <2> QED
    BY <1>2, <1>9, <2>1, <2>2, SnapshotIs
<1>11. /\ Len(before.owed) <= Len(then.owed)
       /\ WindowCount \notin moved => Len(then.owed) = Len(before.owed)
  BY <1>3, <1>10 DEF Explained
<1>12. ASSUME f = Supply \/ f = Bonded, then.owed = now.owed
       PROVE  /\ \A i \in 1 .. PageSize : Owed(i) \in {f} => i \in DOMAIN then.owed
              /\ \A i \in DOMAIN then.owed : Owed(i) \notin moved =>
                   IF Owed(i) \in {f} THEN then.owed[i] # Was(before, i)
                   ELSE then.owed[i] = Was(before, i)
  <2>1. \A i : Owed(i) \notin {f}
    BY <1>12
  <2> QED
    BY <1>3, <1>12, <2>1 DEF Explained
<1>13. ASSUME f = Supply \/ f = Bonded PROVE then.owed = now.owed
  <2>1. new.owed = book.owed
    BY <1>4, <1>5, <1>8, <1>13
  <2> QED
    BY <1>2, <1>9, <2>1 DEF Snapshot, Book
<1>14. CASE f = Supply
  <2>1. Supply \in {f} /\ Bonded \notin {f} /\ then.bonded = now.bonded
        /\ now.supply = book.supply /\ then.supply = 0 /\ book.supply # 0
    BY <1>4, <1>8, <1>10, <1>14
  <2>2. Explained(before, then, {f}, moved)
    BY <1>3, <1>11, <1>12, <1>13, <1>14, <2>1 DEF Explained
  <2> QED
    BY <1>7, <1>8, <1>9, <2>2
<1>15. CASE f = Bonded
  <2>1. Bonded \in {f} /\ Supply \notin {f} /\ then.supply = now.supply
        /\ now.bonded = book.bonded /\ then.bonded = 0 /\ book.bonded # 0
    BY <1>5, <1>8, <1>10, <1>15
  <2>2. Bonded \notin moved /\ Rewards \notin moved => then.bonded < before.bonded
    <3>1. Bonded \notin moved /\ Rewards \notin moved => book.bonded = before.bonded
      BY <1>3, <2>1 DEF Explained
    <3> QED
      BY <1>1, <2>1, <3>1
  <2>3. Explained(before, then, {f}, moved)
    BY <1>3, <1>11, <1>12, <1>13, <1>15, <2>1, <2>2 DEF Explained
  <2> QED
    BY <1>7, <1>8, <1>9, <2>3
<1>16. CASE \E i \in DOMAIN book.owed : f = Owed(i)
  <2>1. PICK i \in DOMAIN book.owed : f = Owed(i)
    BY <1>16
  <2>2. \A j \in DOMAIN now.owed : then.owed[j] = IF j = i THEN 0 ELSE now.owed[j]
    <3>1. new.owed = [book.owed EXCEPT ![i] = 0]
      BY <1>6, <1>8, <2>1
    <3>2. \A j \in DOMAIN book.owed : new.owed[j] = IF j = i THEN 0 ELSE book.owed[j]
      BY <3>1
    <3> QED
      BY <1>10, <3>2
  <2>3. \A j \in DOMAIN now.owed : Owed(j) \notin moved => now.owed[j] = Was(before, j)
    BY <1>3 DEF Explained
  <2>4. \A j : Owed(j) \in {f} <=> j = i
    BY <2>1
  <2>5. i \in DOMAIN now.owed => now.owed[i] # 0
    BY <1>6, <1>10, <2>1
  <2>6. \A j \in DOMAIN then.owed : Owed(j) \notin moved =>
           IF Owed(j) \in {f} THEN then.owed[j] # Was(before, j)
           ELSE then.owed[j] = Was(before, j)
    BY <1>10, <2>2, <2>3, <2>4, <2>5
  <2>7. \A j \in 1 .. PageSize : Owed(j) \in {f} => j \in DOMAIN then.owed
    BY <1>10, <2>4
  <2>8. /\ then.supply = now.supply /\ then.bonded = now.bonded
        /\ Supply \notin {f} /\ Bonded \notin {f}
    BY <1>6, <1>8, <1>10, <2>1
  <2>9. Explained(before, then, {f}, moved)
    BY <1>3, <1>11, <2>6, <2>7, <2>8 DEF Explained
  <2> QED
    BY <1>7, <1>8, <1>9, <2>9
<1> QED
  BY <1>16, <1>14, <1>15

\* An explained difference is judged rightly.
LEMMA ExplainedIsJudged ==
    ASSUME NEW before \in Book, NEW now \in Book, NEW gone, NEW moved,
           Explained(before, now, gone, moved),
           \A f \in gone : f \in {Supply, Bonded} \/ \E i \in Nat \ {0} : f = Owed(i)
    PROVE  /\ Survived(before, now) =>
                {f \in gone : f[1] = "owed" => f[2] <= PageSize}
                  \subseteq moved \cup (IF Rewards \in moved THEN {Bonded} ELSE {})
           /\ ~Survived(before, now) => gone # {} \/ moved \ {Rewards} # {}
<1> USE FiguresDiffer
<1>1. /\ before.bonded \in Nat /\ now.bonded \in Nat
      /\ before.owed \in Seq(Nat) /\ now.owed \in Seq(Nat)
      /\ Len(before.owed) \in Nat /\ Len(now.owed) \in Nat
      /\ DOMAIN now.owed = 1 .. Len(now.owed) /\ DOMAIN before.owed = 1 .. Len(before.owed)
  BY DEF Book
<1>2. ASSUME Survived(before, now), NEW f \in gone, f[1] = "owed" => f[2] <= PageSize,
             f \notin moved
      PROVE  f = Bonded /\ Rewards \in moved
  <2>1. f # Supply
    BY <1>2 DEF Survived, Explained
  <2>2. ASSUME NEW i \in Nat \ {0}, f = Owed(i) PROVE FALSE
    <3>1. i \in DOMAIN now.owed
      <4>1. i \in 1 .. PageSize
        BY <1>2, <2>2, PageIsANumber
      <4> QED
        BY <1>2, <2>2, <4>1 DEF Explained
    <3>2. now.owed[i] # Was(before, i)
      BY <1>2, <2>2, <3>1 DEF Explained
    <3> QED
      BY <1>2, <3>1, <3>2 DEF Survived, Was
  <2>3. ASSUME f = Bonded, Rewards \notin moved PROVE FALSE
    <3>1. now.bonded < before.bonded /\ now.bonded >= before.bonded
      BY <1>2, <2>3 DEF Explained, Survived
    <3> QED
      BY <1>1, <3>1
  <2> QED
    BY <1>2, <2>1, <2>2, <2>3
<1>3. ASSUME gone = {}, moved \ {Rewards} = {}
      PROVE  Survived(before, now)
  <2>1. /\ Supply \notin moved /\ Bonded \notin moved /\ WindowCount \notin moved
        /\ \A i : Owed(i) \notin moved
    BY <1>3
  <2>2. /\ now.supply = before.supply /\ now.bonded >= before.bonded
        /\ Len(now.owed) = Len(before.owed)
        /\ \A i \in DOMAIN now.owed : now.owed[i] = Was(before, i)
    BY <1>3, <2>1 DEF Explained
  <2>3. now.owed = before.owed
    <3>1. \A i \in 1 .. Len(now.owed) : now.owed[i] = before.owed[i]
      BY <1>1, <2>2 DEF Was
    <3> QED
      BY <1>1, <2>2, <3>1, SeqEqual
  <2> QED
    BY <2>2, <2>3 DEF Survived
<1> QED
  BY <1>2, <1>3

-----------------------------------------------------------------------------
(* The books and the verdict, step by step.                                *)

\* What the edits of a book come to.
LEMMA BookEdits ==
    ASSUME NEW book \in Book, NEW i
    PROVE  /\ [book EXCEPT !.bonded = @ + 1]
                = [supply |-> book.supply, bonded |-> book.bonded + 1, owed |-> book.owed]
           /\ [book EXCEPT !.supply = @ + 1, !.bonded = @ + 1]
                = [supply |-> book.supply + 1, bonded |-> book.bonded + 1,
                   owed |-> book.owed]
           /\ [book EXCEPT !.supply = @ - 1, !.owed[i] = @ + 1]
                = [supply |-> book.supply - 1, bonded |-> book.bonded,
                   owed |-> [book.owed EXCEPT ![i] = @ + 1]]
           /\ [book EXCEPT !.bonded = @ - book.owed[i], !.owed = Append(@, 0)]
                = [supply |-> book.supply, bonded |-> book.bonded - book.owed[i],
                   owed |-> Append(book.owed, 0)]
<1>1. book = [supply |-> book.supply, bonded |-> book.bonded, owed |-> book.owed]
  BY DEF Book
<1>2. [book EXCEPT !.bonded = @ + 1]
        = [supply |-> book.supply, bonded |-> book.bonded + 1, owed |-> book.owed]
  BY <1>1
<1>3. [book EXCEPT !.supply = @ + 1, !.bonded = @ + 1]
        = [supply |-> book.supply + 1, bonded |-> book.bonded + 1, owed |-> book.owed]
  <2> DEFINE half == [book EXCEPT !.supply = @ + 1]
  <2>1. half = [supply |-> book.supply + 1, bonded |-> book.bonded, owed |-> book.owed]
    BY <1>1
  <2>2. [book EXCEPT !.supply = @ + 1, !.bonded = @ + 1] = [half EXCEPT !.bonded = @ + 1]
    BY <2>1 DEF Book
  <2> HIDE DEF half
  <2> QED
    BY <2>1, <2>2
<1>4. [book EXCEPT !.supply = @ - 1, !.owed[i] = @ + 1]
        = [supply |-> book.supply - 1, bonded |-> book.bonded,
           owed |-> [book.owed EXCEPT ![i] = @ + 1]]
  <2> DEFINE half == [book EXCEPT !.supply = @ - 1]
  <2>1. half = [supply |-> book.supply - 1, bonded |-> book.bonded, owed |-> book.owed]
    BY <1>1
  <2>2. [book EXCEPT !.supply = @ - 1, !.owed[i] = @ + 1] = [half EXCEPT !.owed[i] = @ + 1]
    BY <2>1 DEF Book
  <2> HIDE DEF half
  <2>3. [half EXCEPT !.owed[i] = @ + 1]
          = [supply |-> book.supply - 1, bonded |-> book.bonded,
             owed |-> [book.owed EXCEPT ![i] = @ + 1]]
    BY <2>1
  <2> QED
    BY <2>2, <2>3
<1>5. [book EXCEPT !.bonded = @ - book.owed[i], !.owed = Append(@, 0)]
        = [supply |-> book.supply, bonded |-> book.bonded - book.owed[i],
           owed |-> Append(book.owed, 0)]
  <2> DEFINE half == [book EXCEPT !.bonded = @ - book.owed[i]]
  <2>1. half = [supply |-> book.supply, bonded |-> book.bonded - book.owed[i],
                owed |-> book.owed]
    BY <1>1
  <2>2. [book EXCEPT !.bonded = @ - book.owed[i], !.owed = Append(@, 0)]
          = [half EXCEPT !.owed = Append(@, 0)]
    BY <2>1 DEF Book
  <2>3. PICK longer : longer = Append(book.owed, 0)
    OBVIOUS
  <2> HIDE DEF half
  <2>4. [half EXCEPT !.owed = Append(@, 0)] = [half EXCEPT !.owed = longer]
    BY <2>1, <2>3
  <2>5. [half EXCEPT !.owed = longer]
          = [supply |-> book.supply, bonded |-> book.bonded - book.owed[i], owed |-> longer]
    BY <2>1
  <2> QED
    BY <2>2, <2>3, <2>4, <2>5
<1> QED
  BY <1>2, <1>3, <1>4, <1>5

\* What others' transactions do to the books.
LEMMA TrafficMoves ==
    ASSUME ReleaseInv, BooksInv, Traffic
    PROVE  \E new \in Book : \E figures :
              /\ Transact(record.core, new, figures)
              /\ Moves(books[record.core], new, figures)
              /\ new.owed # << >>
<1> DEFINE n == record.core
<1> USE FiguresDiffer
<1>1. n \in DOMAIN books /\ n \in DOMAIN cores /\ Stands(n)
  BY DEF Traffic, ReleaseInv, FilesNameWhatStands, Stands, Lengths, BooksInv
<1>2. PICK book \in Book : book = books[n]
  BY <1>1 DEF BooksInv
<1>3. PICK last : last = Len(book.owed)
  OBVIOUS
<1>4. /\ book.supply \in Nat /\ book.bonded \in Nat /\ book.owed \in Seq(Nat)
      /\ Len(book.owed) \in Nat /\ DOMAIN book.owed = 1 .. Len(book.owed)
      /\ book = [supply |-> book.supply, bonded |-> book.bonded, owed |-> book.owed]
  BY DEF Book
<1>5. book.owed # << >> /\ last \in DOMAIN book.owed /\ book.owed[last] \in Nat
  <2>1. book.owed # << >>
    BY <1>1, <1>2 DEF BooksInv
  <2> QED
    BY <1>3, <1>4, <2>1
<1>6. \/ Transact(n, [book EXCEPT !.supply = @ + 1, !.bonded = @ + 1], {Supply, Bonded})
      \/ /\ book.supply > 0
         /\ Transact(n, [book EXCEPT !.supply = @ - 1, !.owed[last] = @ + 1],
                     {Supply, Owed(last)})
      \/ /\ book.bonded >= book.owed[last]
         /\ Transact(n, [book EXCEPT !.bonded = @ - book.owed[last],
                                     !.owed = Append(@, 0)], {Bonded, WindowCount})
      \/ Transact(n, [book EXCEPT !.bonded = @ + 1], {Rewards})
  BY <1>2, <1>3 DEF Traffic
<1> HIDE DEF n
<1> SUFFICES \E new \in Book : \E figures : /\ Transact(n, new, figures)
                                            /\ Moves(book, new, figures) /\ new.owed # << >>
  BY <1>2 DEF n
<1>7. ASSUME Transact(n, [book EXCEPT !.supply = @ + 1, !.bonded = @ + 1], {Supply, Bonded})
      PROVE  \E new \in Book : \E figures : /\ Transact(n, new, figures)
                                             /\ Moves(book, new, figures) /\ new.owed # << >>
  <2>1. PICK new \in Book : /\ new = [book EXCEPT !.supply = @ + 1, !.bonded = @ + 1]
                           /\ new.owed = book.owed
    <3>1. [supply |-> book.supply + 1, bonded |-> book.bonded + 1, owed |-> book.owed] \in Book
      BY <1>4 DEF Book
    <3>2. [book EXCEPT !.supply = @ + 1, !.bonded = @ + 1]
            = [supply |-> book.supply + 1, bonded |-> book.bonded + 1,
               owed |-> book.owed]
      BY BookEdits, Zenon
    <3> QED
      BY <3>1, <3>2
  <2>2. Moves(book, new, {Supply, Bonded})
    BY <1>4, <2>1 DEF Moves
  <2> QED
    BY <1>5, <1>7, <2>1, <2>2
<1>8. ASSUME book.supply > 0,
             Transact(n, [book EXCEPT !.supply = @ - 1, !.owed[last] = @ + 1],
                      {Supply, Owed(last)})
      PROVE  \E new \in Book : \E figures : /\ Transact(n, new, figures)
                                             /\ Moves(book, new, figures) /\ new.owed # << >>
  <2>1. DEFINE owed == [book.owed EXCEPT ![last] = @ + 1]
  <2>2. /\ owed \in Seq(Nat) /\ Len(owed) = Len(book.owed) /\ DOMAIN owed = DOMAIN book.owed
        /\ \A i \in DOMAIN owed : i # last => owed[i] = book.owed[i]
    BY <1>4, <1>5
  <2>3. [book EXCEPT !.supply = @ - 1, !.owed[last] = @ + 1]
          = [supply |-> book.supply - 1, bonded |-> book.bonded, owed |-> owed]
    BY BookEdits, ZenonT(30)
  <2>4. book.supply - 1 \in Nat
    BY <1>4, <1>8
  <2> HIDE DEF owed
  <2>5. PICK new \in Book :
            /\ new = [book EXCEPT !.supply = @ - 1, !.owed[last] = @ + 1]
            /\ new.owed = owed /\ new.bonded = book.bonded
    BY <1>4, <2>2, <2>3, <2>4 DEF Book
  <2>6. Moves(book, new, {Supply, Owed(last)})
    BY <1>4, <2>2, <2>5 DEF Moves
  <2>7. new.owed # << >>
    BY <1>4, <1>5, <2>2, <2>5
  <2> QED
    BY <1>8, <2>5, <2>6, <2>7
<1>9. ASSUME book.bonded >= book.owed[last],
             Transact(n, [book EXCEPT !.bonded = @ - book.owed[last], !.owed = Append(@, 0)],
                      {Bonded, WindowCount})
      PROVE  \E new \in Book : \E figures : /\ Transact(n, new, figures)
                                             /\ Moves(book, new, figures) /\ new.owed # << >>
  <2>1. DEFINE owed == Append(book.owed, 0)
  <2>2. /\ owed \in Seq(Nat) /\ Len(owed) = Len(book.owed) + 1
        /\ \A i \in DOMAIN owed : IF i \in DOMAIN book.owed THEN owed[i] = book.owed[i]
                                  ELSE owed[i] = 0
        /\ owed # << >>
    BY <1>4
  <2>3. [book EXCEPT !.bonded = @ - book.owed[last], !.owed = Append(@, 0)]
          = [supply |-> book.supply, bonded |-> book.bonded - book.owed[last], owed |-> owed]
    BY BookEdits, Zenon
  <2>4. book.bonded - book.owed[last] \in Nat
    BY <1>4, <1>5, <1>9
  <2> HIDE DEF owed
  <2>5. PICK new \in Book :
            /\ new = [book EXCEPT !.bonded = @ - book.owed[last], !.owed = Append(@, 0)]
            /\ new.owed = owed /\ new.supply = book.supply
    BY <1>4, <2>2, <2>3, <2>4 DEF Book
  <2>6. Moves(book, new, {Bonded, WindowCount})
    BY <1>4, <2>2, <2>5 DEF Moves
  <2> QED
    BY <1>9, <2>2, <2>5, <2>6
<1>10. ASSUME Transact(n, [book EXCEPT !.bonded = @ + 1], {Rewards})
       PROVE  \E new \in Book : \E figures : /\ Transact(n, new, figures)
                                              /\ Moves(book, new, figures) /\ new.owed # << >>
  <2>1. PICK new \in Book : /\ new = [book EXCEPT !.bonded = @ + 1] /\ new.owed = book.owed
                           /\ new.supply = book.supply /\ new.bonded = book.bonded + 1
    <3>1. [supply |-> book.supply, bonded |-> book.bonded + 1, owed |-> book.owed] \in Book
      BY <1>4 DEF Book
    <3>2. [book EXCEPT !.bonded = @ + 1]
            = [supply |-> book.supply, bonded |-> book.bonded + 1, owed |-> book.owed]
      BY BookEdits, Zenon
    <3> QED
      BY <3>1, <3>2
  <2>2. new.bonded >= book.bonded /\ Len(book.owed) <= Len(new.owed)
    BY <1>4, <2>1
  <2>3. Moves(book, new, {Rewards})
    BY <2>1, <2>2 DEF Moves
  <2> QED
    BY <1>5, <1>10, <2>1, <2>3
<1> QED
  BY <1>6, <1>7, <1>8, <1>9, <1>10

\* A step that leaves the books alone and bootstraps nothing.
LEMMA BooksStand ==
    ASSUME BooksInv, Lengths, Lengths', UNCHANGED books, Len(cores') = Len(cores),
           \A n : Stands(n)' => Stands(n)
    PROVE  BooksInv'
<1>1. Len(tokens') = Len(tokens)
  BY DEF Lengths
<1>2. UNCHANGED books
  OBVIOUS
<1>3. Len(books') = Len(tokens') /\ books' \in Seq(Book)
  BY <1>1, <1>2 DEF BooksInv
<1> QED
  BY <1>2, <1>3 DEF BooksInv

\* One book is another than it was.
LEMMA EditBook ==
    ASSUME BooksInv, Lengths, Lengths', NEW n \in DOMAIN books, NEW book \in Book,
           books' = [books EXCEPT ![n] = book], Len(cores') = Len(cores),
           book.owed # << >>, \A m : m # n => (Stands(m)' => Stands(m))
    PROVE  /\ BooksInv' /\ books'[n] = book
           /\ \A m \in DOMAIN books : m # n => books'[m] = books[m]
<1>1. /\ books' \in Seq(Book) /\ Len(books') = Len(books) /\ books'[n] = book
      /\ \A m \in DOMAIN books : m # n => books'[m] = books[m]
  BY DEF BooksInv
<1>2. Len(tokens') = Len(tokens)
  BY DEF Lengths
<1>3. \A m : Stands(m) => m \in DOMAIN books
  BY DEF Stands, Lengths, BooksInv
<1>4. ASSUME NEW m, Stands(m)' PROVE books'[m].owed # << >>
  BY <1>1, <1>3, <1>4 DEF BooksInv
<1>5. Len(books') = Len(tokens')
  BY <1>1, <1>2 DEF BooksInv
<1> QED
  BY <1>1, <1>4, <1>5 DEF BooksInv

\* The contract that an upgrade works on stands, and has its book.
LEMMA UpgradedStands ==
    ASSUME ReleaseInv, BooksInv, run.at \in UpgradeSteps
    PROVE  /\ run.core = record.core /\ record # None /\ Stands(run.core)
           /\ run.core \in DOMAIN books /\ books[run.core] \in Book
           /\ books[run.core].owed # << >> /\ run.core \in Nat
BY DEF ReleaseInv, UpgradeHasCome, FilesNameWhatStands, Stands, Lengths, BooksInv

\* What every step of upgrade.mjs leaves in the script's own memory.
LEMMA UpgradeRun ==
    ASSUME ReleaseInv
    PROVE  /\ TakeSnapshot => /\ run.at = "snapshot" /\ run'.at = "store"
                              /\ run'.before = Snapshot(books[run.core])
                              /\ run'.core = run.core /\ run'.build = run.build
                              /\ run'.after = run.after
           /\ StoreCode => \/ Ends
                           \/ /\ run.at = "store" /\ run'.at = "migrate"
                              /\ run'.before = run.before /\ run'.after = run.after
                              /\ run'.core = run.core /\ run'.build = artifact
                              /\ UNCHANGED <<lost, touched>>
           /\ MigrateCore => /\ run.at = "migrate" /\ run'.at = "reread"
                             /\ run'.before = run.before /\ run'.after = run.after
                             /\ run'.core = run.core /\ run'.build = run.build
           /\ ReadBack => /\ run.at = "reread" /\ run'.at = "judge"
                          /\ run'.before = run.before
                          /\ run'.after = Snapshot(books[run.core])
                          /\ run'.core = run.core /\ run'.build = run.build
<1>1. RunShape
  BY DEF ReleaseInv
<1>2. TakeSnapshot => /\ run.at = "snapshot" /\ run'.at = "store"
                      /\ run'.before = Snapshot(books[run.core])
                      /\ run'.core = run.core /\ run'.build = run.build
                      /\ run'.after = run.after
  BY <1>1 DEF TakeSnapshot, RunShape
<1>3. StoreCode => \/ Ends
                   \/ /\ run.at = "store" /\ run'.at = "migrate"
                      /\ run'.before = run.before /\ run'.after = run.after
                      /\ run'.core = run.core /\ run'.build = artifact
                      /\ UNCHANGED <<lost, touched>>
  BY <1>1 DEF StoreCode, RunShape, history
<1>4. MigrateCore => run.at = "migrate" /\ run' = [run EXCEPT !.at = "reread"]
  BY DEF MigrateCore
<1>5. MigrateCore => /\ run.at = "migrate" /\ run'.at = "reread"
                     /\ run'.before = run.before /\ run'.after = run.after
                     /\ run'.core = run.core /\ run'.build = run.build
  BY <1>1, <1>4 DEF RunShape
<1>6. ReadBack => /\ run.at = "reread" /\ run'.at = "judge"
                  /\ run'.before = run.before
                  /\ run'.after = Snapshot(books[run.core])
                  /\ run'.core = run.core /\ run'.build = run.build
  BY <1>1 DEF ReadBack, RunShape
<1> QED
  BY <1>2, <1>3, <1>5, <1>6, Zenon

\* The migration leaves a book of as many windows, all of its figures explained.
LEMMA MigrationIsExplained ==
    ASSUME ReleaseInv, BooksInv, RunInv, VerdictInv, MigrateCore
    PROVE  \E book \in Book :
              /\ books' = [books EXCEPT ![run.core] = book]
              /\ book.owed # << >>
              /\ Explained(run.before, Snapshot(book), lost', touched)
              /\ \A f \in lost' : f \in {Supply, Bonded} \/ \E i \in Nat \ {0} : f = Owed(i)
<1>1. run.at = "migrate" /\ UNCHANGED touched
  BY DEF MigrateCore
<1>2. /\ run.core \in DOMAIN books /\ books[run.core] \in Book
      /\ books[run.core].owed # << >>
  BY <1>1, UpgradedStands DEF UpgradeSteps
<1>3. PICK old \in Book : old = books[run.core]
  BY <1>2
<1>4. Explained(run.before, Snapshot(old), {}, touched)
  BY <1>1, <1>3 DEF VerdictInv
<1>5. CASE lost' = {} /\ UNCHANGED books
  <2>1. books' = [books EXCEPT ![run.core] = old]
    BY <1>2, <1>3, <1>5 DEF BooksInv
  <2> QED
    BY <1>2, <1>3, <1>4, <1>5, <2>1
<1>6. CASE \E f \in {Supply, Bonded} \cup {Owed(i) : i \in DOMAIN old.owed} :
              /\ Destroyed(old, f) # old
              /\ books' = [books EXCEPT ![run.core] = Destroyed(old, f)]
              /\ lost' = {f}
  <2>1. PICK f \in {Supply, Bonded} \cup {Owed(i) : i \in DOMAIN old.owed} :
              /\ Destroyed(old, f) # old
              /\ books' = [books EXCEPT ![run.core] = Destroyed(old, f)]
              /\ lost' = {f}
    BY <1>6
  <2>2. run.before \in Book
    BY DEF RunInv
  <2>3. /\ Destroyed(old, f) \in Book
        /\ Len(Destroyed(old, f).owed) = Len(old.owed)
        /\ Explained(run.before, Snapshot(Destroyed(old, f)), {f}, touched)
    BY <1>4, <2>1, <2>2, DestructionIsExplained
  <2>4. PICK book \in Book : book = Destroyed(old, f)
    BY <2>3
  <2>5. book.owed # << >>
    BY <1>2, <1>3, <2>3, <2>4, BookParts
  <2>6. f \in {Supply, Bonded} \/ \E i \in Nat \ {0} : f = Owed(i)
    <3>1. \A i \in DOMAIN old.owed : i \in Nat \ {0}
      BY BookParts
    <3> QED
      BY <2>1, <3>1
  <2> QED
    BY <2>1, <2>3, <2>4, <2>5, <2>6
<1> QED
  BY <1>3, <1>5, <1>6 DEF MigrateCore

\* Every step keeps the books.
LEMMA BooksStep ==
    ASSUME ReleaseInv, ReleaseInv', BooksInv, RunInv, VerdictInv, [ReleaseNext]_releaseVars
    PROVE  BooksInv'
<1>1. Lengths /\ Lengths'
  BY DEF ReleaseInv
<1>2. CASE UNCHANGED <<books, cores>>
  BY <1>1, <1>2, BooksStand DEF Stands
<1>3. CASE InstantiateToken
  <2>1. /\ cores' = Append(cores, None) /\ books' = Append(books, NoBook)
        /\ NoBook \in Book
    BY <1>3 DEF InstantiateToken, NoBook, Book
  <2>2. /\ Len(books) \in Nat /\ Len(cores) = Len(books) /\ DOMAIN cores = 1 .. Len(cores)
        /\ cores \in Seq(Core \cup {None}) /\ Len(cores') = Len(tokens')
    BY <1>1 DEF Lengths, BooksInv
  <2>3. /\ books' \in Seq(Book) /\ Len(books') = Len(books) + 1
        /\ \A m \in 1 .. Len(books) : books'[m] = books[m]
    BY <2>1 DEF BooksInv
  <2>4. /\ Len(cores') = Len(cores) + 1 /\ DOMAIN cores' = 1 .. Len(cores) + 1
        /\ \A m \in 1 .. Len(cores) : cores'[m] = cores[m]
        /\ cores'[Len(cores) + 1] = None
    BY <2>1, <2>2
  <2>5. ASSUME NEW m, Stands(m)' PROVE books'[m].owed # << >>
    <3>1. m \in 1 .. Len(cores) + 1 /\ cores'[m] \in Core
      BY <2>4, <2>5 DEF Stands
    <3>2. m \in 1 .. Len(cores)
      BY <2>2, <2>4, <3>1, NoneIsNothing
    <3> QED
      BY <2>2, <2>3, <2>4, <2>5, <3>2 DEF Stands, BooksInv
  <2> QED
    BY <2>2, <2>3, <2>4, <2>5 DEF BooksInv
<1>4. CASE InstantiateCore
  <2>1. /\ run.at = "core" /\ UNCHANGED books
        /\ cores' = [cores EXCEPT ![run.core] =
              [build |-> run.build, bootstrapped |-> FALSE, governed |-> FALSE]]
    BY <1>4 DEF InstantiateCore, Takes
  <2>2. Len(cores') = Len(cores) /\ DOMAIN cores' = DOMAIN cores
    BY <1>1, <2>1 DEF Lengths
  <2>3. ASSUME NEW m, Stands(m)' PROVE Stands(m)
    <3>1. CASE m = run.core
      <4>1. ~cores'[m].bootstrapped
        BY <2>1, <2>2, <2>3, <3>1 DEF Stands
      <4> QED
        BY <2>3, <4>1 DEF Stands
    <3>2. CASE m # run.core
      BY <2>1, <2>2, <2>3, <3>2 DEF Stands
    <3> QED
      BY <3>1, <3>2
  <2> QED
    BY <1>1, <2>1, <2>2, <2>3, BooksStand
<1>5. CASE Bootstrap
  <2>1. /\ run.at = "seed" /\ run.core \in DOMAIN cores
        /\ cores' = [cores EXCEPT ![run.core].bootstrapped = TRUE]
        /\ books' = [books EXCEPT ![run.core] =
                        [supply |-> 1, bonded |-> 1, owed |-> <<0>>]]
    BY <1>1, <1>5 DEF Bootstrap, Takes, ReleaseInv, DeployHasCome, Lengths
  <2>2. Len(cores') = Len(cores) /\ DOMAIN cores' = DOMAIN cores
    BY <1>1, <2>1 DEF Lengths
  <2>3. \A m : m # run.core => (Stands(m)' => Stands(m))
    BY <2>1, <2>2 DEF Stands
  <2>4. PICK book \in Book : /\ book = [supply |-> 1, bonded |-> 1, owed |-> <<0>>]
                            /\ book.owed # << >>
    <3>1. PICK owed \in Seq(Nat) : owed = <<0>> /\ owed # << >>
      <4>1. <<0>> \in Seq(Nat) /\ <<0>> # << >>
        OBVIOUS
      <4> QED
        BY <4>1, Zenon
    <3>2. PICK made : made = [supply |-> 1, bonded |-> 1, owed |-> owed]
      OBVIOUS
    <3>3. made \in Book /\ made.owed = owed
      BY <3>2 DEF Book
    <3> QED
      BY <3>1, <3>2, <3>3
  <2>5. run.core \in DOMAIN books
    BY <1>1, <2>1 DEF Lengths, BooksInv
  <2>6. books' = [books EXCEPT ![run.core] = book]
    BY <2>1, <2>4, Zenon
  <2> QED
    BY <1>1, <2>2, <2>3, <2>4, <2>5, <2>6, EditBook
<1>6. CASE HandOver
  <2>1. /\ run.at = "handover" /\ UNCHANGED books
        /\ \/ UNCHANGED cores \/ cores' = [cores EXCEPT ![run.core].governed = TRUE]
    BY <1>6 DEF HandOver, Takes
  <2>2. Stands(run.core)
    BY <1>1, <2>1 DEF ReleaseInv, DeployHasCome, Stands, Lengths
  <2>3. Len(cores') = Len(cores) /\ DOMAIN cores' = DOMAIN cores
    BY <1>1, <2>1 DEF Lengths
  <2>4. \A m : Stands(m)' => Stands(m)
    BY <2>1, <2>2, <2>3 DEF Stands
  <2> QED
    BY <1>1, <2>1, <2>3, <2>4, BooksStand
<1>7. ASSUME NEW n \in DOMAIN cores, cores[n] # None, NEW b \in Builds,
             \/ cores' = [cores EXCEPT ![n] = [cores[n] EXCEPT !.governed = TRUE]]
             \/ cores' = [cores EXCEPT ![n] = [cores[n] EXCEPT !.build = b]]
      PROVE  /\ Len(cores') = Len(cores)
             /\ \A m : Stands(m)' => Stands(m)
  <2>1. cores[n] \in Core /\ cores \in Seq(Core \cup {None})
    BY <1>1, <1>7 DEF Lengths
  <2>2. PICK c \in Core : /\ cores' = [cores EXCEPT ![n] = c]
                         /\ c.bootstrapped = cores[n].bootstrapped
    <3>1. CASE cores' = [cores EXCEPT ![n] = [cores[n] EXCEPT !.governed = TRUE]]
      <4>1. PICK c \in Core : /\ c = [cores[n] EXCEPT !.governed = TRUE]
                             /\ c.bootstrapped = cores[n].bootstrapped
        BY <2>1, CoreEdits
      <4>2. cores' = [cores EXCEPT ![n] = c]
        BY <3>1, <4>1, Zenon
      <4> QED
        BY <4>1, <4>2, Zenon
    <3>2. CASE cores' = [cores EXCEPT ![n] = [cores[n] EXCEPT !.build = b]]
      <4>1. PICK c \in Core : /\ c = [cores[n] EXCEPT !.build = b]
                             /\ c.bootstrapped = cores[n].bootstrapped
        BY <2>1, CoreEdits
      <4>2. cores' = [cores EXCEPT ![n] = c]
        BY <3>2, <4>1, Zenon
      <4> QED
        BY <4>1, <4>2, Zenon
    <3> QED
      BY <1>7, <3>1, <3>2
  <2>3. Len(cores') = Len(cores) /\ DOMAIN cores' = DOMAIN cores
    BY <2>1, <2>2
  <2>4. cores'[n].bootstrapped = cores[n].bootstrapped
        /\ \A m \in DOMAIN cores : m # n => cores'[m] = cores[m]
    BY <2>1, <2>2
  <2>5. \A m : Stands(m)' => Stands(m)
    BY <2>1, <2>3, <2>4 DEF Stands
  <2> QED
    BY <2>3, <2>5
<1>8. CASE HandOverByHand \/ RelayVoted
  <2>1. UNCHANGED books /\ \E b : b \in Builds
    BY <1>8 DEF HandOverByHand, RelayVoted, ReleaseInv
  <2>2. PICK n \in DOMAIN cores, b \in Builds :
          /\ cores[n] # None
          /\ \/ cores' = [cores EXCEPT ![n] = [cores[n] EXCEPT !.governed = TRUE]]
             \/ cores' = [cores EXCEPT ![n] = [cores[n] EXCEPT !.build = b]]
    <3>1. CASE HandOverByHand
      BY <2>1, <3>1 DEF HandOverByHand
    <3>2. CASE RelayVoted
      BY <3>2 DEF RelayVoted
    <3> QED
      BY <1>8, <3>1, <3>2
  <2>3. n \in DOMAIN cores /\ cores[n] # None
    BY <2>2, Zenon
  <2>4. /\ Len(cores') = Len(cores)
        /\ \A m : Stands(m)' => Stands(m)
    BY <1>7, <2>2, <2>3, Zenon
  <2> QED
    BY <1>1, <2>1, <2>4, BooksStand
<1>9. CASE MigrateCore
  <2>1. /\ run.at = "migrate"
        /\ cores' = [cores EXCEPT ![run.core] = [cores[run.core] EXCEPT !.build = run.build]]
    BY <1>9 DEF MigrateCore
  <2>2. /\ Stands(run.core) /\ run.core \in DOMAIN books /\ run.build \in Builds
    BY <2>1, UpgradedStands DEF UpgradeSteps, ReleaseInv, UpgradeHasCome
  <2>3. run.core \in DOMAIN cores /\ cores[run.core] # None
    BY <2>2, NoneIsNothing DEF Stands
  <2>4. Len(cores') = Len(cores) /\ \A m : Stands(m)' => Stands(m)
    BY <1>7, <2>1, <2>2, <2>3, Zenon
  <2>5. PICK book \in Book : /\ books' = [books EXCEPT ![run.core] = book]
                            /\ book.owed # << >>
    BY <1>9, MigrationIsExplained
  <2> QED
    BY <1>1, <2>2, <2>4, <2>5, EditBook
<1>10. CASE Traffic
  <2>1. PICK new \in Book : \E figures : /\ Transact(record.core, new, figures)
                                         /\ new.owed # << >>
    BY <1>10, TrafficMoves
  <2>2. record.core \in DOMAIN books /\ UNCHANGED cores
    BY <1>10 DEF Traffic, Transact, ReleaseInv, FilesNameWhatStands, Stands, Lengths, BooksInv
  <2>3. books' = [books EXCEPT ![record.core] = new]
    BY <2>1 DEF Transact
  <2>4. Len(cores') = Len(cores) /\ \A m : Stands(m)' => Stands(m)
    BY <2>2 DEF Stands
  <2> QED
    BY <1>1, <2>1, <2>2, <2>3, <2>4, EditBook
<1>11. ASSUME \/ \E handOver \in BOOLEAN : RunDeploy(handOver)
              \/ \E dryRun \in BOOLEAN : RunUpgrade(dryRun)
              \/ Upload \/ SetMinters \/ ChangeAdmin \/ WriteDeployment
              \/ TakeSnapshot \/ StoreCode \/ ReadBack \/ RecordUpgrade \/ ReportDamage
              \/ UpdateEnv \/ Die \/ Rebuild \/ PasteEnv \/ UNCHANGED releaseVars
       PROVE  UNCHANGED <<books, cores>>
  BY <1>11, Zenon
  DEF RunDeploy, RunUpgrade, Upload, SetMinters, ChangeAdmin, WriteDeployment,
      TakeSnapshot, StoreCode, ReadBack, RecordUpgrade, ReportDamage, UpdateEnv,
      Die, Rebuild, PasteEnv, releaseVars, chain
<1> QED
  BY <1>2, <1>3, <1>4, <1>5, <1>6, <1>8, <1>9, <1>10, <1>11, Zenon
  DEF ReleaseNext, DeployStep, UpgradeStep

\* The steps that write to no book and end in no comparison.
Elsewhere ==
    \/ \E handOver \in BOOLEAN : RunDeploy(handOver)
    \/ \E step \in DeploySteps \ {"upload", "write"} : Takes(step) /\ UNCHANGED history
    \/ Upload \/ WriteDeployment
    \/ \E dryRun \in BOOLEAN : RunUpgrade(dryRun)
    \/ (StoreCode /\ Ends) \/ RecordUpgrade \/ ReportDamage \/ UpdateEnv \/ Die

\* They keep the run's fields typed, and leave no comparison under way.
LEMMA ElsewhereRuns ==
    ASSUME ReleaseInv, RunInv, Elsewhere
    PROVE  /\ RunInv' /\ run'.at \notin {"store", "migrate", "reread", "judge"}
           /\ lost' \subseteq lost
<1>1. /\ RunShape /\ run.core \in Nat /\ run.build \in Builds \cup {None}
      /\ run.before \in Book /\ run.after \in Book /\ artifact \in Builds
  BY DEF ReleaseInv, RunInv
<1>2. NoBook \in Book
  BY DEF NoBook, Book
<1>3. CASE run' = Idle
  <2>1. /\ run'.option \in BOOLEAN /\ run'.core \in Nat /\ run'.build = None
        /\ run'.at = "idle" /\ run'.before = NoBook /\ run'.after = NoBook
    BY <1>3 DEF Idle
  <2>2. lost' = lost \/ lost' = {}
    BY Zenon
    DEF Elsewhere, RunDeploy, Upload, WriteDeployment, RunUpgrade, Ends, RecordUpgrade,
        ReportDamage, UpdateEnv, Die, history
  <2> QED
    BY <1>2, <2>1, <2>2 DEF RunInv
<1>4. ASSUME NEW handOver \in BOOLEAN, RunDeploy(handOver)
      PROVE  /\ RunInv' /\ run'.at = "upload" /\ lost' = lost
  <2>1. /\ run'.option = handOver /\ run'.core = Len(tokens) + 1 /\ run'.build = None
        /\ run'.before = NoBook /\ run'.after = NoBook /\ run'.at = "upload"
        /\ lost' = lost
    BY <1>4 DEF RunDeploy, Idle, history
  <2>2. Len(tokens) + 1 \in Nat
    BY DEF ReleaseInv, Lengths
  <2> QED
    BY <1>2, <2>1, <2>2 DEF RunInv
<1>5. ASSUME NEW step \in DeploySteps \ {"upload", "write"}, Takes(step), UNCHANGED history
      PROVE  /\ RunInv' /\ run'.at \in DeploySteps /\ lost' = lost
  <2>1. run'.at = Following(step) /\ Following(step) \in DeploySteps
    BY <1>1, <1>5, TakesMoves DEF Following, DeploySteps
  <2>2. /\ run'.option = run.option /\ run'.core = run.core /\ run'.build = run.build
        /\ run'.before = run.before /\ run'.after = run.after
    BY <1>1, <1>5 DEF Takes, RunShape
  <2> QED
    BY <1>5, <2>1, <2>2 DEF RunInv, history
<1>6. ASSUME Upload
      PROVE  /\ RunInv' /\ run'.at = "token" /\ lost' = lost
  <2>1. /\ run'.option = run.option /\ run'.core = run.core /\ run'.build = artifact
        /\ run'.before = run.before /\ run'.after = run.after /\ run'.at = "token"
    BY <1>1, <1>6 DEF Upload, Following, RunShape
  <2> QED
    BY <1>1, <1>6, <2>1 DEF RunInv, Upload, history
<1>7. ASSUME NEW dryRun \in BOOLEAN, RunUpgrade(dryRun)
      PROVE  /\ RunInv' /\ run'.at = "snapshot" /\ lost' = lost
  <2>1. /\ run'.option = dryRun /\ run'.core = record.core /\ run'.build = record.build
        /\ run'.before = NoBook /\ run'.after = NoBook /\ run'.at = "snapshot"
        /\ lost' = lost /\ record # None
    BY <1>7 DEF RunUpgrade, Idle, history
  <2>2. record.core \in Nat /\ record.build \in Builds
    BY <2>1 DEF ReleaseInv, FilesNameWhatStands, Stands, Lengths
  <2> QED
    BY <1>2, <2>1, <2>2 DEF RunInv
<1>8. ASSUME RecordUpgrade
      PROVE  /\ RunInv' /\ run'.at = "env" /\ lost' = {}
  <2>1. /\ run'.option = FALSE /\ run'.core = run.core /\ run'.build = run.build
        /\ run'.before = NoBook /\ run'.after = NoBook /\ run'.at = "env" /\ lost' = {}
    BY <1>8 DEF RecordUpgrade, Idle
  <2> QED
    BY <1>1, <1>2, <2>1 DEF RunInv
<1>9. (StoreCode /\ Ends) \/ WriteDeployment \/ ReportDamage \/ UpdateEnv \/ Die
        => run' = Idle
  BY DEF WriteDeployment, ReportDamage, UpdateEnv, Die, Ends
<1> QED
  BY <1>3, <1>4, <1>5, <1>6, <1>7, <1>8, <1>9 DEF Elsewhere, DeploySteps

\* Every other step of a script, and every step of others.
LEMMA ScriptSteps ==
    ASSUME [ReleaseNext]_releaseVars
    PROVE  \/ Elsewhere
           \/ TakeSnapshot \/ (StoreCode /\ ~Ends) \/ MigrateCore \/ ReadBack
           \/ Traffic \/ UNCHANGED <<books, run, history>>
<1>1. ASSUME NEW step \in DeploySteps \ {"upload", "write"}, Takes(step), UNCHANGED history
      PROVE  Elsewhere
  BY <1>1, Zenon DEF Elsewhere
<1>2. InstantiateToken \/ InstantiateCore \/ SetMinters \/ ChangeAdmin \/ Bootstrap \/ HandOver
        => Elsewhere
  <2>1. {"token", "core", "minters", "admin", "seed", "handover"}
          \subseteq DeploySteps \ {"upload", "write"}
    BY DEF DeploySteps
  <2> QED
    BY <1>1, <2>1, Zenon
    DEF InstantiateToken, InstantiateCore, SetMinters, ChangeAdmin, Bootstrap, HandOver
<1>3. DeployStep => Elsewhere
  BY <1>2, Zenon DEF DeployStep, Elsewhere
<1>4. UpgradeStep => Elsewhere \/ TakeSnapshot \/ (StoreCode /\ ~Ends) \/ MigrateCore \/ ReadBack
  BY Zenon DEF UpgradeStep, Elsewhere
<1>5. Die => Elsewhere
  BY Zenon DEF Elsewhere
<1>6. Rebuild \/ PasteEnv \/ HandOverByHand \/ RelayVoted \/ UNCHANGED releaseVars
        => UNCHANGED <<books, run, history>>
  BY Zenon DEF Rebuild, PasteEnv, HandOverByHand, RelayVoted, releaseVars, chain
<1> QED
  BY <1>3, <1>4, <1>5, <1>6, Zenon DEF ReleaseNext

\* Every step keeps the snapshots typed and the comparison explained.
LEMMA VerdictStep ==
    ASSUME ReleaseInv, BooksInv, RunInv, VerdictInv, [ReleaseNext]_releaseVars
    PROVE  RunInv' /\ VerdictInv'
<1>1. CASE Elsewhere
  <2>1. RunInv' /\ lost' \subseteq lost
        /\ run'.at \notin {"store", "migrate", "reread", "judge"}
    BY <1>1, ElsewhereRuns
  <2> QED
    BY <2>1 DEF VerdictInv
<1>2. CASE UNCHANGED <<books, run, history>>
  BY <1>2 DEF RunInv, VerdictInv, history
<1>3. RunShape /\ run.at \in {"idle"} \cup DeploySteps \cup UpgradeSteps
  BY DEF ReleaseInv
<1>4. CASE TakeSnapshot
  <2>1. /\ run.at = "snapshot" /\ run'.at = "store"
        /\ run'.before = Snapshot(books[run.core])
        /\ run'.core = run.core /\ run'.build = run.build /\ run'.after = run.after
    BY <1>4, UpgradeRun
  <2>2. PICK book \in Book : book = books[run.core]
    BY <2>1, UpgradedStands DEF UpgradeSteps
  <2>3. lost' = {} /\ touched' = {} /\ books' = books /\ run'.option = run.option
    BY <1>3, <1>4 DEF TakeSnapshot, chain, RunShape
  <2>4. run'.before \in Book
    BY <2>1, <2>2, SnapshotIs
  <2>5. Explained(run'.before, Snapshot(books'[run'.core]), lost', touched')
    BY <2>1, <2>2, <2>3, NothingMovedYet
  <2>6. Snapshot(books[run.core])' = Snapshot(books'[run'.core])
    BY DEF Snapshot
  <2> QED
    BY <2>1, <2>3, <2>4, <2>5, <2>6 DEF RunInv, VerdictInv
<1>5. CASE StoreCode /\ ~Ends
  <2>1. /\ run.at = "store" /\ run'.at = "migrate"
        /\ run'.before = run.before /\ run'.after = run.after
        /\ run'.core = run.core /\ run'.build = artifact
        /\ UNCHANGED <<lost, touched>>
    BY <1>5, UpgradeRun
  <2>2. books' = books /\ artifact \in Builds /\ run'.option = run.option
    BY <1>3, <1>5 DEF StoreCode, chain, ReleaseInv, RunShape
  <2> QED
    BY <2>1, <2>2 DEF RunInv, VerdictInv, Snapshot
<1>6. CASE MigrateCore
  <2>1. /\ run.at = "migrate" /\ run'.at = "reread"
        /\ run'.before = run.before /\ run'.after = run.after
        /\ run'.core = run.core /\ run'.build = run.build
    BY <1>6, UpgradeRun
  <2>2. run' = [run EXCEPT !.at = "reread"] /\ UNCHANGED touched
    BY <1>6 DEF MigrateCore
  <2>3. run'.option = run.option
    BY <1>3, <2>2 DEF RunShape
  <2>4. PICK book \in Book :
              /\ books' = [books EXCEPT ![run.core] = book]
              /\ Explained(run.before, Snapshot(book), lost', touched)
              /\ \A f \in lost' : f \in {Supply, Bonded} \/ \E i \in Nat \ {0} : f = Owed(i)
    BY <1>6, MigrationIsExplained
  <2>5. run.core \in DOMAIN books
    BY <2>1, UpgradedStands DEF UpgradeSteps
  <2>6. books'[run'.core] = book
    BY <2>1, <2>4, <2>5 DEF BooksInv
  <2>7. Explained(run'.before, Snapshot(books'[run'.core]), lost', touched')
    BY <2>1, <2>2, <2>4, <2>6
  <2>8. Snapshot(books[run.core])' = Snapshot(books'[run'.core])
    BY DEF Snapshot
  <2> QED
    BY <2>1, <2>3, <2>4, <2>7, <2>8 DEF RunInv, VerdictInv
<1>7. CASE ReadBack
  <2>1. /\ run.at = "reread" /\ run'.at = "judge"
        /\ run'.before = run.before
        /\ run'.after = Snapshot(books[run.core])
        /\ run'.core = run.core /\ run'.build = run.build
    BY <1>7, UpgradeRun
  <2>2. UNCHANGED <<lost, touched, books>> /\ run'.option = run.option
    BY <1>3, <1>7 DEF ReadBack, chain, history, RunShape
  <2>3. run'.after \in Book
    BY <2>1, UpgradedStands, SnapshotIs DEF UpgradeSteps
  <2> QED
    BY <2>1, <2>2, <2>3 DEF RunInv, VerdictInv
<1>8. CASE Traffic
  <2>1. PICK new, figures :
            /\ new \in Book
            /\ Transact(record.core, new, figures)
            /\ Moves(books[record.core], new, figures)
    BY <1>8, TrafficMoves
  <2>2. /\ UNCHANGED <<run, lost>> /\ books' = [books EXCEPT ![record.core] = new]
        /\ touched' = IF run.at \in {"store", "migrate", "reread", "judge"}
                         /\ run.core = record.core
                      THEN touched \cup figures ELSE touched
    BY <2>1 DEF Transact
  <2>3. CASE run.at \notin {"store", "migrate", "reread", "judge"}
    BY <2>2, <2>3 DEF RunInv, VerdictInv
  <2>4. CASE run.at \in {"store", "migrate", "reread"}
    <3>1. /\ run.core = record.core /\ run.core \in DOMAIN books
          /\ books[run.core] \in Book
      BY <2>4, UpgradedStands DEF UpgradeSteps
    <3>2. books'[run.core] = new
      BY <2>2, <3>1 DEF BooksInv
    <3>3. touched' = touched \cup figures
      BY <2>2, <2>4, <3>1
    <3>4. run.before \in Book
      BY DEF RunInv
    <3>5. Explained(run.before, Snapshot(books[run.core]), lost, touched)
      BY <2>4 DEF VerdictInv
    <3>6. Explained(run.before, Snapshot(new), lost, touched \cup figures)
      BY <2>1, <3>1, <3>4, <3>5, MovesAreExplained
    <3>7. Snapshot(books[run.core])' = Snapshot(books'[run'.core])
      BY DEF Snapshot
    <3>8. Snapshot(books'[run'.core]) = Snapshot(new)
      BY <2>2, <3>2
    <3> QED
      BY <2>2, <2>4, <3>3, <3>6, <3>7, <3>8 DEF RunInv, VerdictInv
  <2>5. CASE run.at = "judge"
    <3>1. Explained(run.before, run.after, lost, touched)
      BY <2>5 DEF VerdictInv
    <3>2. touched \subseteq touched'
      BY <2>2
    <3>3. Explained(run.before, run.after, lost, touched')
      BY <3>1, <3>2 DEF Explained
    <3> QED
      BY <2>2, <2>5, <3>3 DEF RunInv, VerdictInv
  <2> QED
    BY <2>3, <2>4, <2>5
<1> QED
  BY <1>1, <1>2, <1>4, <1>5, <1>6, <1>7, <1>8, ScriptSteps

-----------------------------------------------------------------------------
(* Theorems.                                                               *)

(***************************************************************************)
(* Wherever a deployment may have died, a protocol that has taken money    *)
(* has a token that the deploy key can neither mint nor administer: every  *)
(* power is disposed of before the seed goes in (deploy.mjs:5-17).         *)
(***************************************************************************)
THEOREM DeployKeyIsPowerless == ReleaseSpec => []NoKeyCanMint
<1>1. ReleaseInv => NoKeyCanMint
  BY DEF ReleaseInv
<1> QED
  BY <1>1, ReleaseBegins, ReleaseStep, PTL DEF ReleaseSpec

(***************************************************************************)
(* A deployment or an upgrade that ends well leaves a record of a contract *)
(* that took its seed, with the code hash that it runs, and a front end on *)
(* the same contract names the same (deploy.mjs and upgrade.mjs, the last  *)
(* steps), whatever was rebuilt, pasted, relayed or abandoned before.      *)
(***************************************************************************)
THEOREM EndingWellIsUsable == ReleaseSpec => SuccessIsUsable
<1> DEFINE Usable == /\ cores[record'.core].bootstrapped
                     /\ cores[record'.core].build = record'.build
                     /\ env' # None /\ env'.core = record'.core => env' = record'
<1>1. ReleaseInv /\ [ReleaseNext]_releaseVars
        => [WriteDeployment \/ UpdateEnv => Usable]_releaseVars
  <2> SUFFICES ASSUME ReleaseInv, WriteDeployment \/ UpdateEnv
               PROVE  Usable
    OBVIOUS
  <2> QED
    BY WritingKeeps, EnvKeeps
<1> QED
  BY <1>1, ReleaseBegins, ReleaseStep, PTL DEF ReleaseSpec, SuccessIsUsable

AllInv == ReleaseInv /\ BooksInv /\ RunInv /\ VerdictInv

\* Together they are inductive.
LEMMA AllBegins == ReleaseInit => AllInv
<1> SUFFICES ASSUME ReleaseInit PROVE AllInv
  OBVIOUS
<1>1. ReleaseInv
  BY ReleaseBegins
<1>2. RunInv
  <2>1. /\ run.option \in BOOLEAN /\ run.core \in Nat /\ run.build = None
        /\ run.before = NoBook /\ run.after = NoBook
    BY DEF ReleaseInit, Idle
  <2>2. NoBook \in Book
    BY DEF NoBook, Book
  <2> QED
    BY <2>1, <2>2 DEF RunInv
<1>3. VerdictInv
  BY DEF ReleaseInit, VerdictInv, Idle
<1>4. BooksInv
  BY DEF ReleaseInit, BooksInv, Stands
<1> QED
  BY <1>1, <1>2, <1>3, <1>4 DEF AllInv

\* Every step keeps them all.
LEMMA AllStep == AllInv /\ [ReleaseNext]_releaseVars => AllInv'
  BY ReleaseStep, BooksStep, VerdictStep DEF AllInv

(***************************************************************************)
(* Chain, files and the running script keep their types: every contract    *)
(* has a token and a book, no figure of a book falls below zero, and a     *)
(* script's snapshots are books.                                           *)
(***************************************************************************)
THEOREM ReleaseAlwaysTyped == ReleaseSpec => []ReleaseTypeOK
<1>1. AllInv => ReleaseTypeOK
  <2> SUFFICES ASSUME AllInv PROVE ReleaseTypeOK
    OBVIOUS
  <2>1. ReleaseInv /\ BooksInv /\ RunInv
    BY DEF AllInv
  <2>2. run \in Run
    BY <2>1 DEF ReleaseInv, RunShape, RunInv, Run
  <2>3. record # None => record \in Deployed
    BY <2>1 DEF ReleaseInv, FilesNameWhatStands, Stands, Lengths, Deployed
  <2>4. env # None => env \in Deployed
    BY <2>1 DEF ReleaseInv, FilesNameWhatStands, Stands, Lengths, Deployed
  <2> QED
    BY <2>1, <2>2, <2>3, <2>4 DEF ReleaseInv, Lengths, BooksInv, ReleaseTypeOK
<1> QED
  BY <1>1, AllBegins, AllStep, PTL DEF ReleaseSpec

(***************************************************************************)
(* An upgrade is called a success only if every figure its snapshots cover *)
(* survived, and damaged only if a figure moved, but for what others did   *)
(* between the snapshots and for rewards on the stake (upgrade.mjs, the    *)
(* snapshots and verify), for any number of windows and any page length.   *)
(***************************************************************************)
THEOREM VerdictAlwaysRight == ReleaseSpec => VerdictIsRight
<1> DEFINE covered == {f \in lost : f[1] = "owed" => f[2] <= PageSize}
           hidden == touched \cup (IF Rewards \in touched THEN {Bonded} ELSE {})
<1>1. AllInv /\ [ReleaseNext]_releaseVars
        => [/\ RecordUpgrade => covered \subseteq hidden
            /\ ReportDamage => lost # {} \/ touched \ {Rewards} # {}]_releaseVars
  <2> SUFFICES ASSUME AllInv, RecordUpgrade \/ ReportDamage
               PROVE  /\ RecordUpgrade => covered \subseteq hidden
                      /\ ReportDamage => lost # {} \/ touched \ {Rewards} # {}
    OBVIOUS
  <2>1. /\ run.at = "judge" /\ run.before \in Book /\ run.after \in Book
        /\ Explained(run.before, run.after, lost, touched)
        /\ \A f \in lost : f \in {Supply, Bonded} \/ \E i \in Nat \ {0} : f = Owed(i)
    BY DEF RecordUpgrade, ReportDamage, VerdictInv, RunInv, AllInv
  <2>2. /\ Survived(run.before, run.after) => covered \subseteq hidden
        /\ ~Survived(run.before, run.after) => lost # {} \/ touched \ {Rewards} # {}
    BY <2>1, ExplainedIsJudged
  <2> QED
    BY <2>2 DEF RecordUpgrade, ReportDamage
<1> QED
  BY <1>1, AllBegins, AllStep, PTL DEF ReleaseSpec, VerdictIsRight
=============================================================================

------------------------------ MODULE Release ------------------------------
(***************************************************************************)
(* Deploying and upgrading the protocol (scripts/deploy.mjs and            *)
(* scripts/upgrade.mjs).  Each script is a line of transactions sent by    *)
(* one key, and may die between any two of them; the chain keeps what was  *)
(* done.  Users transact all the while, and the record of the deployment   *)
(* (deploy/<network>.json) is the only memory a script has of another.     *)
(*                                                                         *)
(* One operator holds the key and runs one script at a time.               *)
(***************************************************************************)
EXTENDS Integers, Sequences

CONSTANTS
    Builds,         \* what scripts/build.mjs may leave in artifacts/
    None,
    PageSize        \* windows that the snapshot asks for (50)

\* Bounds of the model.
CONSTANTS MaxDeployments, MaxFigure, MaxWindows

VARIABLES
    \* The chain, one entry for each deployment.
    tokens,     \* the minters of the derivative token and its admin
    cores,      \* the staking contract, None until it is instantiated
    books,      \* what a migration has no business changing
    \* The operator's machine.
    artifact,   \* the build in artifacts/
    record,     \* the deployment file, or None
    env,        \* app/.env.local, or None
    run,        \* the script that runs, or Idle
    \* Since the upgrade took its first snapshot.
    lost,       \* the figures that the migration destroyed
    touched     \* the figures that others changed, and "rewards"

chain   == <<tokens, cores, books>>
files   == <<artifact, record, env>>
history == <<lost, touched>>
releaseVars == <<chain, files, run, history>>

Supply == <<"supply", 0>>
Bonded == <<"bonded", 0>>
WindowCount == <<"windows", 0>>
Rewards == <<"rewards", 0>>
Owed(i) == <<"owed", i>>

\* `supply` stands for every figure that the script compares exactly, `bonded` for
\* the stake and the rate, which may grow; `owed` is the list of windows.
Book == [supply : Nat, bonded : Nat, owed : Seq(Nat)]

NoBook == [supply |-> 0, bonded |-> 0, owed |-> << >>]

Token == [minters : SUBSET {"deployer", "core"}, admin : {"deployer", "core"}]

Core == [build : Builds, bootstrapped : BOOLEAN, governed : BOOLEAN]

DeploySteps  == {"upload", "token", "core", "minters", "admin", "seed", "handover",
                 "write"}
UpgradeSteps == {"snapshot", "store", "migrate", "reread", "judge", "env"}

Deployed == [core : Nat, build : Builds]

ASSUME PageIsANumber == PageSize \in Nat

ASSUME NoneIsNothing == None \notin Core /\ None \notin Deployed

\* The script, the step it takes next, its option (--hand-to-governance or
\* --dry-run), the deployment it works on, the build it uploaded, and the
\* snapshots.
Idle == [at |-> "idle", option |-> FALSE, core |-> 0, build |-> None,
         before |-> NoBook, after |-> NoBook]

Run == [at : {"idle"} \cup DeploySteps \cup UpgradeSteps, option : BOOLEAN,
        core : Nat, build : Builds \cup {None}, before : Book, after : Book]

ReleaseTypeOK ==
    /\ tokens \in Seq(Token) /\ cores \in Seq(Core \cup {None})
    /\ books \in Seq(Book)
    /\ Len(cores) = Len(tokens) /\ Len(books) = Len(tokens)
    /\ artifact \in Builds
    /\ record \in Deployed \cup {None} /\ env \in Deployed \cup {None}
    /\ run \in Run

ReleaseInit ==
    /\ tokens = << >> /\ cores = << >> /\ books = << >>
    /\ artifact \in Builds /\ record = None /\ env = None
    /\ run = Idle /\ lost = {} /\ touched = {}

-----------------------------------------------------------------------------
(* deploy.mjs.                                                             *)

(* Mutated form of Following: the pool is seeded before the admin goes.    *)
FollowingSeedFirst(step) ==
    CASE step = "upload"  -> "token"   [] step = "token"    -> "core"
      [] step = "core"    -> "minters" [] step = "minters"  -> "seed"
      [] step = "seed"    -> "admin"   [] step = "admin"    -> "handover"
      [] step = "handover" -> "write"

\* The step after each: the order that disposes of every power in turn.
Following(step) ==
    CASE step = "upload"  -> "token"   [] step = "token"    -> "core"
      [] step = "core"    -> "minters" [] step = "minters"  -> "admin"
      [] step = "admin"   -> "seed"    [] step = "seed"     -> "handover"
      [] step = "handover" -> "write"

Takes(step) ==
    /\ run.at = step
    /\ run' = [run EXCEPT !.at = Following(step)]

RunDeploy(handOver) ==
    /\ run = Idle /\ Len(tokens) < MaxDeployments
    /\ run' = [Idle EXCEPT !.at = "upload", !.option = handOver,
                           !.core = Len(tokens) + 1]
    /\ UNCHANGED <<chain, files, history>>

Upload ==
    /\ run.at = "upload"
    /\ run' = [run EXCEPT !.at = Following("upload"), !.build = artifact]
    /\ UNCHANGED <<chain, files, history>>

InstantiateToken ==
    /\ Takes("token")
    /\ tokens' = Append(tokens, [minters |-> {"deployer"}, admin |-> "deployer"])
    /\ cores' = Append(cores, None) /\ books' = Append(books, NoBook)
    /\ UNCHANGED <<files, history>>

InstantiateCore ==
    /\ Takes("core")
    /\ cores' = [cores EXCEPT ![run.core] =
                    [build |-> run.build, bootstrapped |-> FALSE, governed |-> FALSE]]
    /\ UNCHANGED <<tokens, books, files, history>>

\* set_minters replaces the list; the token refuses anyone but its admin.
SetMinters ==
    /\ Takes("minters")
    /\ tokens[run.core].admin = "deployer"
    /\ tokens' = [tokens EXCEPT ![run.core].minters = {"core"}]
    /\ UNCHANGED <<cores, books, files, history>>

ChangeAdmin ==
    /\ Takes("admin")
    /\ tokens[run.core].admin = "deployer"
    /\ tokens' = [tokens EXCEPT ![run.core].admin = "core"]
    /\ UNCHANGED <<cores, books, files, history>>

\* The seed is staked and its shares are minted, so the core must be a minter.
Bootstrap ==
    /\ Takes("seed")
    /\ "core" \in tokens[run.core].minters
    /\ cores' = [cores EXCEPT ![run.core].bootstrapped = TRUE]
    /\ books' = [books EXCEPT ![run.core] =
                    [supply |-> 1, bonded |-> 1, owed |-> <<0>>]]
    /\ UNCHANGED <<tokens, files, history>>

\* With --hand-to-governance, by a transaction whose outcome nobody reads.
HandOver ==
    /\ Takes("handover")
    /\ \/ UNCHANGED cores
       \/ run.option /\ cores' = [cores EXCEPT ![run.core].governed = TRUE]
    /\ UNCHANGED <<tokens, books, files, history>>

WriteDeployment ==
    /\ run.at = "write"
    /\ record' = [core |-> run.core, build |-> run.build]
    /\ run' = Idle
    /\ UNCHANGED <<chain, artifact, env, history>>

DeployStep ==
    \/ \E handOver \in BOOLEAN : RunDeploy(handOver)
    \/ Upload \/ InstantiateToken \/ InstantiateCore
    \/ SetMinters \/ ChangeAdmin \/ Bootstrap \/ HandOver \/ WriteDeployment

-----------------------------------------------------------------------------
(* upgrade.mjs.                                                            *)

\* The script stops before it spends anything once upgrades are voted on.
MayUpgrade(core, dryRun) == core.governed => dryRun

\* Whatever happened to the figures is of no more concern once a script ends.
Ends == run' = Idle /\ lost' = {} /\ touched' = {}

RunUpgrade(dryRun) ==
    /\ run = Idle /\ record # None
    /\ MayUpgrade(cores[record.core], dryRun)
    /\ run' = [Idle EXCEPT !.at = "snapshot", !.option = dryRun,
                           !.core = record.core, !.build = record.build]
    /\ UNCHANGED <<chain, files, history>>

\* Windows are asked for oldest first, one page of them.
Snapshot(book) ==
    [book EXCEPT !.owed =
        SubSeq(@, 1, IF Len(@) < PageSize THEN Len(@) ELSE PageSize)]

\* A query is encrypted for a code hash: the contract must still run it.
CanRead(build) == cores[run.core].build = build

TakeSnapshot ==
    /\ run.at = "snapshot" /\ CanRead(run.build)
    /\ run' = [run EXCEPT !.at = "store", !.before = Snapshot(books[run.core])]
    /\ lost' = {} /\ touched' = {}
    /\ UNCHANGED <<chain, files>>

\* The upload costs the operator its fee; the same build, or a dry run, ends here.
StoreCode ==
    /\ run.at = "store"
    /\ \/ (artifact = run.build \/ run.option) /\ Ends
       \/ /\ artifact # run.build /\ ~run.option
          /\ run' = [run EXCEPT !.at = "migrate", !.build = artifact]
          /\ UNCHANGED history
    /\ UNCHANGED <<chain, files>>

\* A figure that the new code fails to read back.
Destroyed(book, figure) ==
    CASE figure = Supply -> [book EXCEPT !.supply = 0]
      [] figure = Bonded -> [book EXCEPT !.bonded = 0]
      [] OTHER           -> [book EXCEPT !.owed[figure[2]] = 0]

\* The chain refuses code that no vote named; good code destroys nothing.
MigrateCore ==
    /\ run.at = "migrate" /\ ~cores[run.core].governed
    /\ run' = [run EXCEPT !.at = "reread"]
    /\ cores' = [cores EXCEPT ![run.core].build = run.build]
    /\ \/ lost' = {} /\ UNCHANGED books
       \/ LET book == books[run.core]
          IN  \E f \in {Supply, Bonded} \cup {Owed(i) : i \in DOMAIN book.owed} :
                /\ Destroyed(book, f) # book
                /\ books' = [books EXCEPT ![run.core] = Destroyed(book, f)]
                /\ lost' = {f}
    /\ UNCHANGED <<tokens, files, touched>>

ReadBack ==
    /\ run.at = "reread" /\ CanRead(run.build)
    /\ run' = [run EXCEPT !.at = "judge", !.after = Snapshot(books[run.core])]
    /\ UNCHANGED <<chain, files, history>>

(* Mutated form of Survived: the windows are counted and not compared.     *)
SurvivedByCount(before, after) ==
    /\ after.supply = before.supply
    /\ Len(after.owed) = Len(before.owed)
    /\ after.bonded >= before.bonded

\* verify: exact figures, and stake that may only have grown.
Survived(before, after) ==
    /\ after.supply = before.supply
    /\ after.owed = before.owed
    /\ after.bonded >= before.bonded

(* Mutated form of NewRecord: the hash in the file is left as it was.      *)
NewRecordStale(build) == record

NewRecord(build) == [record EXCEPT !.build = build]

RecordUpgrade ==
    /\ run.at = "judge" /\ Survived(run.before, run.after)
    /\ record' = NewRecord(run.build)
    /\ run' = [Idle EXCEPT !.at = "env", !.core = run.core, !.build = run.build]
    /\ lost' = {} /\ touched' = {}
    /\ UNCHANGED <<chain, artifact, env>>

ReportDamage ==
    /\ run.at = "judge" /\ ~Survived(run.before, run.after)
    /\ Ends
    /\ UNCHANGED <<chain, files>>

\* The front end is given the new hash, when it is on this network at all.
UpdateEnv ==
    /\ run.at = "env"
    /\ env' = IF env = None THEN None ELSE [env EXCEPT !.build = run.build]
    /\ run' = Idle
    /\ UNCHANGED <<chain, artifact, record, history>>

UpgradeStep ==
    \/ \E dryRun \in BOOLEAN : RunUpgrade(dryRun)
    \/ TakeSnapshot \/ StoreCode \/ MigrateCore \/ ReadBack
    \/ RecordUpgrade \/ ReportDamage \/ UpdateEnv

-----------------------------------------------------------------------------
(* Everything else that happens.                                           *)

\* An exception, a closed terminal, a node that stops answering.
Die ==
    /\ run # Idle /\ Ends
    /\ UNCHANGED <<chain, files>>

Rebuild ==
    /\ artifact' \in Builds \ {artifact}
    /\ UNCHANGED <<chain, record, env, run, history>>

\* The values that deploy.mjs prints are pasted into the front end.
PasteEnv ==
    /\ run = Idle /\ record # None /\ env' = record
    /\ UNCHANGED <<chain, artifact, record, run, history>>

\* The one-way step, taken by hand as the script suggests; and afterwards a
\* migration that a vote has named, relayed by hand.
HandOverByHand ==
    /\ run = Idle
    /\ \E n \in DOMAIN cores :
         cores[n] # None /\ cores' = [cores EXCEPT ![n].governed = TRUE]
    /\ UNCHANGED <<tokens, books, files, run, history>>

RelayVoted ==
    /\ run = Idle
    /\ \E n \in DOMAIN cores, b \in Builds :
         /\ cores[n] # None /\ cores[n].governed
         /\ cores' = [cores EXCEPT ![n].build = b]
    /\ UNCHANGED <<tokens, books, files, run, history>>

Transact(n, book, figures) ==
    /\ books' = [books EXCEPT ![n] = book]
    /\ touched' = IF run.at \in {"store", "migrate", "reread", "judge"} /\ run.core = n
                  THEN touched \cup figures ELSE touched
    /\ UNCHANGED <<tokens, cores, files, run, lost>>

\* Users stake and ask for withdrawals; windows close; rewards reach the stake.
\* They come once a deployment is on record, and with a new record move to it.
Traffic ==
    /\ record # None
    /\ LET n    == record.core
           book == books[n]
           last == Len(book.owed)
       IN \/ /\ book.supply < MaxFigure /\ book.bonded < MaxFigure
             /\ Transact(n, [book EXCEPT !.supply = @ + 1, !.bonded = @ + 1],
                         {Supply, Bonded})
          \/ /\ book.supply > 0 /\ book.owed[last] < MaxFigure
             /\ Transact(n, [book EXCEPT !.supply = @ - 1, !.owed[last] = @ + 1],
                         {Supply, Owed(last)})
          \/ /\ last < MaxWindows /\ book.bonded >= book.owed[last]
             /\ Transact(n, [book EXCEPT !.bonded = @ - book.owed[last],
                                         !.owed = Append(@, 0)],
                         {Bonded, WindowCount})
          \/ /\ book.bonded < MaxFigure
             /\ Transact(n, [book EXCEPT !.bonded = @ + 1], {Rewards})

ReleaseNext ==
    \/ DeployStep \/ UpgradeStep
    \/ Die \/ Rebuild \/ PasteEnv \/ HandOverByHand \/ RelayVoted \/ Traffic

ReleaseSpec == ReleaseInit /\ [][ReleaseNext]_releaseVars

-----------------------------------------------------------------------------
(* Properties.                                                             *)

\* From the moment a protocol takes money, wherever its deployment may have
\* died, the deploy key can neither mint its token nor make anyone a minter
\* (deploy.mjs:5-17, "each step disposes of a power the previous step created").
NoKeyCanMint ==
    \A n \in DOMAIN cores :
        cores[n] # None /\ cores[n].bootstrapped
            => tokens[n].minters = {"core"} /\ tokens[n].admin = "core"

\* An upgrade is called a success only if every figure that the snapshots cover
\* survived, and damaged only if a figure moved: what users did between the
\* snapshots, and rewards on the stake, are all that can mislead it.
VerdictIsRight ==
    [][LET covered == {f \in lost : f[1] = "owed" => f[2] <= PageSize}
           hidden  == touched \cup (IF Rewards \in touched THEN {Bonded} ELSE {})
       IN  /\ RecordUpgrade => covered \subseteq hidden
           /\ ReportDamage => lost # {} \/ touched \ {Rewards} # {}
      ]_releaseVars

\* A script that ends well leaves a record, and a front end that names the same
\* contract, with the code hash that the contract runs.
SuccessIsUsable ==
    [][WriteDeployment \/ UpdateEnv =>
          /\ cores[record'.core].bootstrapped
          /\ cores[record'.core].build = record'.build
          /\ env' # None /\ env'.core = record'.core => env' = record'
      ]_releaseVars
=============================================================================

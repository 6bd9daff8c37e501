------------------------------ MODULE Packages ------------------------------
(***************************************************************************)
(* Which packages come with the medium and which the installer asks for.   *)
(* The build (build-iso.sh) pacstraps an image of the target without the   *)
(* optional preinstalled applications and leaves in the offline mirror     *)
(* only the archives that image cannot supply; the installer               *)
(* (arch_install_system) deploys the image and asks for the rest, list by  *)
(* list.  What pacman resolves a package to is external: Needs.            *)
(***************************************************************************)
EXTENDS Naturals, Sequences

CONSTANTS
    Package,      \* the packages of the full mirror
    Needs,        \* package |-> what pacman installs for it, itself included
    Baseline,     \* monarch-base.packages
    Preinstalls,  \* monarch-preinstalls.packages
    Bootstrap,    \* target-bootstrap.packages: its phase markers |-> packages
    Other,        \* monarch-other.packages and archinstall.packages
    Tailscale     \* the package "tailscale"

Groups == {"archinstall", "early-base", "early-runtime", "early-luarocks", "pipewire"}

(* Dependencies of dependencies are resolved too. *)
ASSUME PackagesAssumption ==
    /\ Needs \in [Package -> SUBSET Package]
    /\ \A p \in Package : p \in Needs[p] /\ \A q \in Needs[p] : Needs[q] \subseteq Needs[p]
    /\ Bootstrap \in [Groups -> SUBSET Package]
    /\ Baseline \subseteq Package /\ Other \subseteq Package /\ Tailscale \in Other

Closure(S) == UNION {Needs[p] : p \in S}

EarlyBootstrap == Bootstrap["early-base"] \cup Bootstrap["early-runtime"]

(* Asked for apart: what pulls in Lua packages must find LuaRocks in place. *)
LuaRocks == Bootstrap["early-luarocks"]

Early == EarlyBootstrap \cup LuaRocks

-----------------------------------------------------------------------------
(* The build *)

Target == Baseline \cup UNION {Bootstrap[g] : g \in Groups}

Image == Closure(Target \ Preinstalls)

Installable == Closure(Target \cup Other)

(* Image and mirror hold the same versions: the one is made from the other.    *)
Select(image, reachable) == reachable \ image

Shipped == Select(Image, Installable)

(* The lists are kept outside this repository.  phases.py:83: tailscale is     *)
(* "intentionally absent from the baseline target transaction"; and what the   *)
(* installer asks for in any case is no option of the wizard's.                *)
ASSUME ListsAssumption ==
    /\ Tailscale \notin Image
    /\ \A g \in Groups : Bootstrap[g] \cap Preinstalls = {}

-----------------------------------------------------------------------------
(* The installer: the user's choice, and what is asked for in which order.     *)

Choice == [preinstalls : BOOLEAN,                            \* the wizard's option
           tailscale : BOOLEAN,                              \* an auth key is staged
           apps : SUBSET (Bootstrap["pipewire"] \cup Other)] \* by archinstall's handler

(* install_base_delta, the headers of the kernels and setup_zram_swap ask for  *)
(* parts of it, one after the other.                                           *)
BaseDelta == Bootstrap["archinstall"]

Transactions == <<"archinstall", "early", "luarocks", "runtime", "tailscale", "apps">>

(* Variant: the option only concerns the image. *)
RuntimeOfEveryone(choice) == Baseline \ Early

Runtime(choice) == (Baseline \ Early) \ (IF choice.preinstalls THEN {} ELSE Preinstalls)

(* What archinstall's handler picks for the hardware, PipeWire among it. *)
Applications(choice) == choice.apps

Requested(choice, t) ==
    CASE t = "archinstall" -> BaseDelta
      [] t = "early" -> EarlyBootstrap
      [] t = "luarocks" -> LuaRocks
      [] t = "runtime" -> Runtime(choice)
      [] t = "tailscale" -> IF choice.tailscale THEN {Tailscale} ELSE {}
      [] t = "apps" -> Applications(choice)

(* Variant: whatever the target holds, the list is installed. *)
MissingAll(names, installed) == names

(* target_missing_packages, from the target's package database: by name; what *)
(* another package provides counts for pacman -T, so it may leave out more.   *)
Missing(names, installed) == names \ installed

(* The archives a transaction takes from the mirror.  tailscale is not held    *)
(* against the database first, and pacman installs again what it is told to.   *)
Fetched(choice, installed, t) ==
    LET names == IF t = "tailscale" THEN Requested(choice, t)
                 ELSE Missing(Requested(choice, t), installed)
    IN names \cup (Closure(names) \ installed)

(* What the user is to find: the build's lists, and the answers.               *)
Chosen(choice) ==
    (Target \ Preinstalls) \cup (IF choice.preinstalls THEN Baseline ELSE {})
        \cup (IF choice.tailscale THEN {Tailscale} ELSE {}) \cup choice.apps
=============================================================================

------------------------------ MODULE MCInstall ------------------------------
(* Install with a dozen packages: a library everything needs, an optional    *)
(* application that a chosen one depends on and one that none does, with a   *)
(* library of its own, and firmware that only some machines ask for.         *)
EXTENDS Install

MCBaseline == {"desktop", "viewer", "game", "limine"}
MCPreinstalls == {"viewer", "game"}
MCOther == {"tailscale", "firmware"}
MCBootstrap == [g \in Groups |->
    CASE g = "archinstall" -> {"kernel"}
      [] g = "early-base" -> {"limine"}
      [] g = "early-runtime" -> {"monarch"}
      [] g = "early-luarocks" -> {"lua"}
      [] g = "pipewire" -> {"pipewire"}]
MCDeps == [desktop |-> {"viewer", "libc"}, game |-> {"engine", "libc"},
           firmware |-> {"blobs"}, tailscale |-> {"libc"}, monarch |-> {"limine"}]
MCPackage == {"desktop", "viewer", "game", "limine", "tailscale", "firmware", "kernel",
              "monarch", "lua", "pipewire", "libc", "engine", "blobs"}
MCNeeds == [p \in MCPackage |->
    {p} \cup (IF p \in DOMAIN MCDeps THEN MCDeps[p] ELSE {})]

(* Everything, nothing optional, and an auth key with the optional ones left out. *)
MCChoices == {[preinstalls |-> TRUE, tailscale |-> TRUE, apps |-> {"pipewire", "firmware"}],
              [preinstalls |-> FALSE, tailscale |-> FALSE, apps |-> {}],
              [preinstalls |-> FALSE, tailscale |-> TRUE, apps |-> {"firmware"}]}
=============================================================================

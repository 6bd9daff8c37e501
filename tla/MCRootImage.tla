---------------------------- MODULE MCRootImage ----------------------------
(* RootImage on small paths: a nested pair of directories, one beside them,  *)
(* and a mountpoint the image has no directory for.                          *)
EXTENDS RootImage

MCDirs == {<<>>, <<"a">>, <<"a", "b">>, <<"c">>}
MCMounts == {<<"a">>, <<"a", "b">>, <<"c">>, <<"n">>}
MCNames == {<<"@">>, <<"@", "a">>, <<"@", "a", "b">>, <<"@home">>, <<"@home", "b">>, <<"data">>}
MCStandard == {"@", "@home"}

(* Every partition a free-space install can be handed, and a disk to be wiped, *)
(* on which archinstall makes a filesystem of one device.                      *)
EveryDisk == {d \in DiskType : ~d.protected => d.content = "foreign" /\ d.single}
=============================================================================

--------------------------- MODULE MCSharePackage ---------------------------
(* Instances of SharePackage for TLC: a file in a directory, one in a       *)
(* directory below it, and one path in both vaults; exports of a directory, *)
(* and of the file in it as well.                                           *)
EXTENDS SharePackage

dx == <<"d", "x">>
dfy == <<"d", "f", "y">>

MCSrcPaths == {dx, dfy}
MCDstPaths == {dx}
MCExportRoots == {{<<"d">>}, {<<"d">>, dx}}
=============================================================================

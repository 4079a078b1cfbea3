------------------------------- MODULE VfsMC -------------------------------
EXTENDS Vfs, TLC
MCOverlayPaths == {<<"etc">>, <<"etc", "a">>, <<"new">>, <<"new", ".b">>}
MCFiles == {<<"etc", "a">>}
MCWrites == {<<1>>, <<2, 2>>}
MCBytes == <<3>>
MCRun == <<"run">>
MCSentinel == <<"run", "pivoted">>
MCPaths == {MCRun, MCSentinel, <<"g">>}
DataSymmetry == Permutations(Data)
=============================================================================

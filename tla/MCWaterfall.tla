---------------------------- MODULE MCWaterfall -----------------------------
(* Values for model checking Waterfall.                                    *)
EXTENDS Waterfall, TLC

LibA   == [dirs |-> {"app"}, file |-> "a.so", ext |-> "so"]
Object == [dirs |-> {"app"}, file |-> "a.o", ext |-> "o"]
Built  == [dirs |-> {"app", "packages"}, file |-> "x.o", ext |-> "o"]

LibAndObjects == {LibA, Object, Built}
OnlyLibA      == {LibA}

(* node_modules/pkg leads to packages; app/lib to app.                     *)
BuiltInModules == [Built EXCEPT !.dirs = {"app", "node_modules", "pkg"}]
LibInLib       == [LibA EXCEPT !.dirs = {"app", "lib"}]
TwoAliases     == {<<LibA, LibInLib>>, <<Built, BuiltInModules>>}
NoAlias        == {}
=============================================================================

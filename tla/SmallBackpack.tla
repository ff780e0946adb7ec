--------------------------- MODULE SmallBackpack ---------------------------
(* A board of six cells and a catalog in which everything the scoring looks at
   happens: a two-cell source with three stars, two of which reach the same
   target or compete for it, copies, an item with two aliases, a target list
   with a name that is no item, an item with a condition tree, an item that
   excludes itself, and recipes that share ingredients, one of which the
   inventory can never make. *)
EXTENDS Candidates

Star(offset, types, items, exclude) ==
    [offset |-> offset, types |-> types, items |-> items, exclude |-> exclude, unknown |-> FALSE]
Item(shape, rotations, types, aliases, condition, stars) ==
    [shape |-> shape, rotations |-> rotations, types |-> types, stats |-> {},
     aliases |-> aliases, condition |-> condition, stars |-> stars]
Condition(class, value) == [class |-> class, value |-> value]
AnyOf(conditions) == [class |-> "CompoundStarCondition", any |-> TRUE, conditions |-> conditions]
AllOf(conditions) == [class |-> "CompoundStarCondition", any |-> FALSE, conditions |-> conditions]

MCItems ==
    [sword |-> Item({<<0, 0>>, <<0, 1>>}, <<0, 90>>, {"weapon"}, {}, NoCondition,
                    <<Star(<<1, 0>>, {"stone"}, {}, FALSE),
                      Star(<<1, 1>>, {"stone"}, {"elixir"}, FALSE),
                      Star(<<0, 2>>, {}, {"gem", "ghost"}, FALSE)>>),
     gem   |-> Item({<<0, 0>>}, <<0>>, {"stone"}, {}, NoCondition,
                    <<Star(<<0, 1>>, {}, {}, TRUE), Star(<<1, 0>>, {}, {"leaf"}, FALSE)>>),
     herb  |-> Item({<<0, 0>>}, <<0>>, {"plant"}, {"leaf", "elixir"},
                    <<AnyOf({2, 3}), Condition("OtherItemIsOfType", "stone"), AllOf({4, 5}),
                      Condition("DefinitionIsDifferent", ""), Condition("OtherItemIsExactly", "sword")>>,
                    <<Star(<<0, -1>>, {}, {}, FALSE), Star(<<-1, -1>>, {}, {}, FALSE),
                      Star(<<-1, 0>>, {}, {}, FALSE)>>),
     leaf  |-> Item({<<0, 0>>}, <<0>>, {"plant"}, {}, NoCondition, <<>>),
     elixir |-> Item({<<0, 0>>}, <<0>>, {"potion"}, {}, NoCondition, <<>>)]

MCRecipes ==
    <<[result |-> "ring",   anchor |-> "gem",  ingredients |-> <<"gem", "gem">>],
      [result |-> "elixir", anchor |-> "herb", ingredients |-> <<"herb", "gem">>],
      [result |-> "axe",    anchor |-> "sword", ingredients |-> <<"sword", "leaf">>]>>

MCInventory == <<"sword", "gem", "herb", "gem">>
MCMask == (0..1) \X (0..2)

Priority(kind, value) == [kind |-> kind, value |-> value]
Group(sources, targets) == [sources |-> sources, targets |-> targets]
Config(priorities, groups, semantics, limited, allowSkips) ==
    [priorities |-> priorities, groups |-> groups, semantics |-> semantics,
     limited |-> limited, allowSkips |-> allowSkips]

Craft(x) == Priority("craft", x)
StarsOf(x) == Priority("star_source", x)
CoverageOf(n) == Priority("coverage_group", n)

Bases ==
    <<Config(<<StarsOf("gem"), StarsOf("sword"), Craft("elixir"), Craft("ring")>>, <<>>, "legacy", FALSE, TRUE),
      Config(<<Craft("ring"), StarsOf("sword")>>, <<>>, "legacy", FALSE, TRUE),
      Config(<<CoverageOf(1), StarsOf("herb"), Craft("elixir"), CoverageOf(0), StarsOf("gem")>>,
             <<Group(<<"gem">>, {}), Group(<<"sword", "herb">>, {"gem", "sword"})>>, "legacy", FALSE, TRUE),
      Config(<<StarsOf("gem"), Craft("ring"), StarsOf("herb"), Craft("ring")>>,
             <<Group(<<"sword", "herb">>, {})>>, "legacy", FALSE, TRUE),
      Config(<<StarsOf("sword"), StarsOf("gem")>>, <<>>, "outgoing_v3", TRUE, TRUE),
      Config(<<StarsOf("gem"), CoverageOf(0)>>, <<Group(<<"herb", "sword">>, {})>>, "outgoing_v2", TRUE, TRUE),
      Config(<<>>, <<Group(<<"sword", "gem">>, {}), Group(<<"herb">>, {"gem"})>>, "legacy", FALSE, FALSE)>>
=============================================================================

------------------------ MODULE MCLayerwiseConnector ------------------------
(* Two requests with a common first page, prefilled together or one after
   the other, through two banks of three layers; one alone that meets failures;
   and one that finds its whole prompt cached, of which the remote store may
   have lost the last page.  Without a request, plans: a prompt that grows through
   partial and full pages, whose tail page may be replaced, on two banks with
   straight, broken, remapped and too large maps. *)
EXTENDS LayerwiseConnector, TLC

CONSTANTS r1, r2, r3

MCPrompt == r1 :> <<"a", "b">> @@ r2 :> <<"a", "c">> @@ r3 :> <<"a", "b">>
MCBatches == {<<r1>>, <<r2>>, <<r3>>, <<r1, r2>>}
MCScenarios == {[active |-> {}, warm |-> {}, lost |-> {}, faults |-> 2],
                [active |-> {r1, r2}, warm |-> {}, lost |-> {}, faults |-> 2],
                [active |-> {r1}, warm |-> {}, lost |-> {}, faults |-> 0],
                [active |-> {r3}, warm |-> {<<r1, 1>>, <<r1, 2>>}, lost |-> {}, faults |-> 0],
                [active |-> {r3}, warm |-> {<<r1, 1>>, <<r1, 2>>}, lost |-> {"b"}, faults |-> 0]}

R(s, e, o) == [starts |-> s, ends |-> e, owners |-> o]
MCRequests == {R(<<0>>, <<2>>, <<1>>), R(<<0>>, <<4>>, <<1>>), R(<<0>>, <<4>>, <<2>>),
               R(<<0, 4>>, <<4, 6>>, <<1, 3>>), R(<<0, 4>>, <<4, 8>>, <<1, 3>>), R(<<0, 4>>, <<4, 8>>, <<1, 4>>),
               R(<<0, 5>>, <<4, 8>>, <<1, 3>>), R(<<0, 4, 8>>, <<4, 8, 9>>, <<1, 4, 5>>)}
MCMapPairs == {<<<<0, 1, 2, 3, 4>>, <<5, 6, 7, 8, 9>>>>, <<<<0, 1, 3, 5, 4>>, <<5, 7, 6, 8, 9>>>>,
               <<<<0, 1, 2, 3, 4>>, <<5, 6, 7, 20, 21>>>>}
=============================================================================

-------------------------- MODULE MCVulkanResources --------------------------
EXTENDS VulkanResources

(* A request for a frame. *)
Ask(resolution, materials, sky, draws, view, interface, size) ==
  [resolution |-> resolution, materials |-> materials, sky |-> sky, draws |-> draws,
   view |-> view, interface |-> interface, size |-> size]

(* One with two meshes that share an image, shadows and materials; one     *)
(* with a mesh and reflections; one whose sky changes; one with an         *)
(* interface whose shadow maps change size.                                *)
MCGames ==
  {[meshes |-> {"soldier", "crate"}, sources |-> {},
    requests |-> {Ask(1, TRUE, NoSky, <<"soldier", "crate">>, {"soldier"}, <<>>, 0)}],
   [meshes |-> {"crate"}, sources |-> {},
    requests |-> {Ask(0, TRUE, "day", <<"crate">>, {}, <<>>, 0)}],
   [meshes |-> {}, sources |-> {},
    requests |-> {Ask(0, TRUE, sky, <<>>, {}, <<>>, 0) : sky \in Skies}],
   [meshes |-> {}, sources |-> {"icon"},
    requests |-> {Ask(1, FALSE, NoSky, <<>>, {}, <<"icon">>, 2),
                  Ask(2, FALSE, NoSky, <<>>, {}, <<White>>, 1)}]}

MCMaps == [mesh \in Meshes |-> IF mesh = "crate" THEN <<"wood">> ELSE <<"wood", "metal">>]
=============================================================================

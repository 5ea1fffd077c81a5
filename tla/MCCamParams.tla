----------------------------- MODULE MCCamParams -----------------------------
(* Model checking instance of CamParams: every value of the settings that    *)
(* look at each other, one or two of the others.                             *)
EXTENDS CamParams, TLC
Of(k, vs) == {k :> v : v \in vs}
MCPairs == {"effect" :> e @@ "whitebalance" :> w :
              e \in {"mono", "solarize"}, w \in {"auto", "daylight"}}
           \cup {"scene" :> "night" @@ "iso" :> "deblur"}
MCEdits == UNION {MCPairs,
                  Of("effect", {"none", "mono", "aqua"}),
                  Of("whitebalance", {"auto", "daylight", "odd"}),
                  Of("scene", {"auto", "night", "odd"}),
                  Of("iso", {"100", "deblur"}), Of("luma", {5}),
                  Of("fps", {4, 15, 65536 + 15}), Of("zoom", {9}),
                  Of("gps", {1, 2}), Of("saturation", {4}),
                  Of("contrast", {0}), Of("rotation", {90, 45}),
                  Of("pictureSize", {<<320, 240>>, <<2592, 1936>>}),
                  Of("previewSize", {<<176, 144>>, <<720, 480>>}),
                  Of("flashMode", {"on"}), Of("pictureFormat", {"raw"}),
                  Of("exposure", {-12})}
MCInfos == {[flash_enabled |-> b, vx6953 |-> b] : b \in BOOLEAN}
MCMayFail == {"effect", "whitebalance", "fps", "hjr"}
=============================================================================

--------------------------- MODULE MCShadowStack ---------------------------
EXTENDS ShadowStack

M(id, source) == [id |-> id, source |-> source]

(* One method of each source, the first being the trace's entrypoint.      *)
AllMethods == {M(1, "user"), M(2, "user"), M(3, "library"), M(4, "synchronization"), M(0, "blacklisted")}

SyncInLibrary == {M(2, "library"), M(3, "synchronization")}
=============================================================================

-------------------------- MODULE MCAssetIdentity --------------------------
(* AssetIdentity on a host at 44.1 kHz: m1 runs at the host rate, m2 at    *)
(* 48 kHz through the resampler.                                           *)
EXTENDS AssetIdentity, TLC

CONSTANTS m1, m2, x1

MCModels == {m1, m2}
MCRateOf == (m1 :> 44100) @@ (m2 :> 48000)

=============================================================================

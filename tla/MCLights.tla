------------------------------ MODULE MCLights ------------------------------
\* The lights HAL on a small instance; see MCLights.cfg.
EXTENDS Lights

\* Black, white, a colour with brightness 0, and one in between.
MCColors == {<<0, 0, 0>>, <<255, 255, 255>>, <<3, 0, 0>>, <<0, 200, 10>>}
=============================================================================

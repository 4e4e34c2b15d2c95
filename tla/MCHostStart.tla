----------------------------- MODULE MCHostStart -----------------------------
(***************************************************************************)
(* Instances of HostStart: the shapes host.toml can have.                  *)
(***************************************************************************)
EXTENDS HostStart

Base(ip) == <<Header("[host]"), Line("ip", ip),
              Header("[gpu]"), Line("vaapi_render_node", "renderD128")>>

\* The template; a file whose [encode] has no codec; one written before there
\* were keys; one without [encode] and with a blank address.
MCFiles ==
  {Base("") \o <<Header("[encode]"), Line("codec", "auto"), Comment>>,
   Base("10.0.0.9") \o <<Header("[encode]"), Comment>>,
   Base("") \o <<Header("[encode]"), Line("codec", "h264_vaapi"),
                 Header("[pairing]"), Line("token", "s0")>>,
   Base(" ")}

MCHardware == {{}, {"renderD129", "h264_nvenc"}, {"h264_qsv", "libx264"}}
MCSecret == <<"s1", "s2", "s3", "s4", "s5">>
=============================================================================

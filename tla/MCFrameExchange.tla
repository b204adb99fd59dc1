--------------------------- MODULE MCFrameExchange ---------------------------
(* Every pair of fields of a valid profile moved to the edges of its range,  *)
(* and, for the frames, profiles at the edges that shape a frame.            *)
EXTENDS FrameExchange

Letters(n) == [i \in 1 .. n |-> 65]

MCBase ==
  [max_logical_pmus |-> 150, max_clients_per_endpoint |-> 2,
   max_command_frame_bytes |-> 4096, receive_buffer_bytes |-> 4096,
   send_buffer_bytes |-> 4096, count |-> 2, first_listen_port |-> 4712,
   first_stream_id |-> 1001, first_pmu_id |-> 1001, pdc_name |-> Letters(4),
   pmu_name_prefix |-> Letters(5), protocol_version |-> 3, data_rate_hz |-> 50,
   time_base |-> 1000000, nominal_frequency_hz |-> 50,
   v2_good_stat_pmu_ids |-> << >>,
   voltage_magnitude |-> 230000, voltage_variation |-> 400,
   voltage_class |-> 400000, voltage_scale |-> 1000,
   current_magnitude |-> 5000, current_variation |-> 150, current_scale |-> 100,
   frequency_deviation_hz |-> [nominal |-> 10000, variation |-> 2000],
   rocof_hz_per_s |-> [nominal |-> 0, variation |-> 1000]]

MCEdges ==
  [max_logical_pmus |-> {0, 1, 151}, max_clients_per_endpoint |-> {1, 3},
   max_command_frame_bytes |-> {17, 18, 4097}, receive_buffer_bytes |-> {0, 4097},
   send_buffer_bytes |-> {0, 4097}, count |-> {0, 1, 3, 150, 151},
   first_listen_port |-> {0, 1, 65386, 65387, 65534, 65535},
   first_stream_id |-> {0, 1, 65385, 65386, 65533, 65534, 65535},
   first_pmu_id |-> {0, 1, 65385, 65386, 65533, 65534, 65535},
   pdc_name |-> {<< >>, Letters(255), Letters(256), <<65, 10>>},
   pmu_name_prefix |-> {<< >>, Letters(13), Letters(14), Letters(252), Letters(253)},
   protocol_version |-> {1, 2, 4}, data_rate_hz |-> {25, 60},
   time_base |-> {0, 50, 75, 16777200, 16777250}, nominal_frequency_hz |-> {55, 60},
   v2_good_stat_pmu_ids |-> {<<1001>>, <<1001, 1002>>, <<1002, 1002>>, <<1003>>},
   voltage_magnitude |-> {0, 1, 65535000, 65534600, 65534601, NotFinite},
   voltage_variation |-> {-1, 0, 230000, 230001, 65305000, NotFinite},
   voltage_class |-> {-1, 0, NotFinite},
   voltage_scale |-> {0, 4, 10, 30, NotFinite},
   current_magnitude |-> {0, 6553350, 6553351},
   current_variation |-> {-1, 5000, 5001},
   current_scale |-> {0, 4, 10, NotFinite},
   frequency_deviation_hz |-> {[nominal |-> 32767000, variation |-> 0],
       [nominal |-> -32766000, variation |-> 1000],
       [nominal |-> 32766000, variation |-> 1500],
       [nominal |-> 0, variation |-> NotFinite]},
   rocof_hz_per_s |-> {[nominal |-> -327670000, variation |-> 0],
       [nominal |-> 327660000, variation |-> 10000],
       [nominal |-> 327660000, variation |-> 15001],
       [nominal |-> NotFinite, variation |-> 0]}]

\* Signals over the whole range of their fields.
WideBase ==
  [MCBase EXCEPT !.frequency_deviation_hz = [nominal |-> 10000, variation |-> 32000],
                 !.rocof_hz_per_s = [nominal |-> 0, variation |-> 327670000]]

\* Names of one, a few and the most bytes that are accepted, the extreme
\* identifiers, time bases and command limits, both frequencies, and a PMU
\* with a good STAT.
MCExchanging ==
  {[WideBase EXCEPT !.protocol_version = v] : v \in {2, 3}}
    \cup {[WideBase EXCEPT !.pdc_name = Letters(n), !.pmu_name_prefix = Letters(m)] :
            n \in {1, 255}, m \in {0, 252}}
    \cup {[WideBase EXCEPT !.protocol_version = 2, !.pmu_name_prefix = Letters(m),
                         !.nominal_frequency_hz = 60, !.v2_good_stat_pmu_ids = <<1001>>] :
            m \in {0, 13}}
    \cup {[WideBase EXCEPT !.protocol_version = v, !.first_stream_id = 65533,
                         !.first_pmu_id = 65533, !.time_base = 16777200,
                         !.max_command_frame_bytes = 18] :
            v \in {2, 3}}

MCStamps ==
  {[soc |-> 0, fracsec |-> 0], [soc |-> 1700000000, fracsec |-> 980000],
   [soc |-> 2147483647, fracsec |-> 16441656]}
\* In the size byte they make each frame declare less, and more, than it has.
MCMasks == {2, 4, 48}

\* A voltage scale that PHUNIT rounds down and a magnitude that fits only the
\* configured one.
RoundedProfiles ==
  {[MCBase EXCEPT !.protocol_version = v, !.voltage_scale = 1234,
                  !.voltage_magnitude = m] :
     v \in {2, 3}, m \in {80600000, 80608050, 80800000}}

MCProfiles ==
  MCExchanging \cup RoundedProfiles
    \cup UNION {{[MCBase EXCEPT ![f] = v, ![g] = w] : v \in MCEdges[f], w \in MCEdges[g]} :
                  f, g \in DOMAIN MCBase}

MCExcursions ==
  {[voltage |-> 500000, frequency |-> 0, rocof |-> 0],
   [voltage |-> -300000, frequency |-> 0, rocof |-> 0],
   [voltage |-> 90000000, frequency |-> 2000000, rocof |-> -5000000],
   [voltage |-> 0, frequency |-> -70000000, rocof |-> 400000000]}

MCMixed == [i \in 0 .. 149 |-> [b \in 1 .. 16 |-> (31 * b + 7 * i) % 256]]
=============================================================================

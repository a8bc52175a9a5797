---------------------------- MODULE MCAdapters ----------------------------
(* The calls made in the runs of Adapters: single cells and several, ones   *)
(* that overlap, the ends of areas and of sixteen bits, calls the builders  *)
(* refuse and calls the device does.                                        *)
EXTENDS Adapters

Read(area, start, count)    == ACall("read", area, start, count, <<>>, 0)
Write(area, start, values)  == ACall("write", area, start, Len(values), values, 0)
WriteAs(option, area, start, values) == ACall("write", area, start, Len(values), values, option)

ModbusCalls == {Probe, Read("holding", 0, 2), Read("input", 65535, 1), Read("holding", 0, 126),
                Write("holding", 0, <<258, 65535>>), WriteAs(6, "holding", 1, <<513>>),
                Write("holding", 65535, <<1, 2>>), Write("coil", 1, <<1>>), Write("coil", 1, <<1, 0>>)}
FinsCalls   == {Probe, Read("DM", 0, 2), Read("W", 65535, 1), Read("DM", 0, 0),
                Write("DM", 0, <<258, 65535>>), Write("DM", 1, <<-1>>), Write("W", 65535, <<1, 2>>)}
MelsecCalls == {Probe, Read("D", 0, 2), Read("X", 16, 17), Read("D", 0, 961),
                Write("D", 0, <<258, 65535>>), Write("X", 16, <<513>>), Write("D", 999999, <<-1>>)}
S7Calls     == {Probe, Read("DB1", 0, 4), Read("M", 1, 2), Read("DB2", 0, 65536),
                Write("DB1", 0, <<258, 65535>>), Write("DB1", 1, <<513>>), Write("M", 65535, <<1>>)}
EnipCalls   == {Probe, Read("A", -1, 2), Read("AB", 1, 1), Read("Z", -1, 1), Read("A", 0, 0),
                Write("A", 0, <<258, 65536>>), WriteAs(195, "AB", 1, <<513>>), WriteAs(195, "A", 1, <<513>>),
                Write("AB", 1, <<513>>), WriteAs(197, "A", 1, <<1>>)}

\* A probe speaks 3E only; the reads of IEC 104 are in Iec104Session.
MCCalls == [d \in MODBUS |-> ModbusCalls] @@ [d \in {"3e_binary", "3e_ascii"} |-> MelsecCalls]
             @@ [d \in {"4e_binary", "4e_ascii"} |-> MelsecCalls \ {Probe}]
             @@ [fins |-> FinsCalls, s7 |-> S7Calls, enip |-> EnipCalls, iec104 |-> {Probe}]

\* Writes at numbers with more digits, or bits, than their field in the frame.
MCFarCalls == "enip" :> {Write("A", 256, <<1>>)}
                @@ "3e_ascii" :> {Write("D", 1000000, [i \in 1..16 |-> i])}
                @@ "s7" :> {Write("DB1", 2097152, <<513>>)}
=============================================================================

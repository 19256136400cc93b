CONSTANTS
    Conns = {c1, c2}
    None = None
    Asked = {{"rx_ctrl", "tx_ctrl", "other"}, {"rx_data"}, {"tx_data"}}
    Block = 2
SPECIFICATION Spec
INVARIANTS SettingsAsCommanded KeyedForClient StreamsWhole
PROPERTIES GivenBack Answered

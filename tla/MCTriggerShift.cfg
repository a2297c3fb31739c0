SPECIFICATION Spec
CONSTANTS
    temp = temp
    lamp = lamp
    mode = mode
    other = other
    n1 = n1
    n2 = n2
    eco = eco
    heat = heat
    t1 = t1
    anna = anna
    gone = gone
    zero = zero
    hour = hour
    Devices = {temp, lamp, mode}
    Writable = {lamp, mode}
    WidgetOf <- MCWidgetOf
    EnumOf <- MCEnumOf
    OtherIds = {other}
    Numbers = {n1, n2}
    Words = {eco, heat}
    Texts = {t1, anna, gone}
    Residents = {anna}
    NewRows <- OneNew
    Cooldowns = {zero, hour}
    DefaultCooldown = hour
    Triggers <- TwoThresholds
    MaxEdits = 2
INVARIANTS
    RowsKeepTheirValues

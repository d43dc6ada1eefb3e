CONSTANTS MaxGtt = 2
SPECIFICATION FairSpec
INVARIANTS TypeOK RefCountExact SomeoneWillEnable QuietAfterStop
PROPERTIES NoStatusLost InterruptsComeBack
